---- MODULE Spec2Model ----
(***************************************************************************)
(* cloud-proxy: a launcher (start), a stop command and a detached daemon   *)
(* that owns one TCP forwarder per configured endpoint.  The daemon's      *)
(* identity (daemon.pid) and state (state.json) files are the only state   *)
(* shared between the commands.                                            *)
(***************************************************************************)
EXTENDS Integers, Sequences, FiniteSets, TLC

(***************************************************************************)
(* Bounds of the model.                                                    *)
(***************************************************************************)
\* longest configuration (number of proxies) the decision is explored with
MaxLen == 2

(***************************************************************************)
(* Data: config.ProxyEntry and configurations accepted by config.Load.     *)
(***************************************************************************)
Instances == {"db-a", "db-b", "db-c"}
Ports == {5432, 5433, 5434}
Secrets == {"sec-a", "sec-b"}

ProxyEntry == [Instance : Instances, Port : Ports, Secret : Secrets]

SeqsUpTo(S, n) == UNION {[1..k -> S] : k \in 0..n}

\* a uniqueness check that looks at the ports only
validateUniqueness_PortsOnly(cfg) ==
    \A i, j \in 1..Len(cfg) : i < j => cfg[i].Port # cfg[j].Port

\* config.validateUniqueness: nil error iff no port and no instance repeats
validateUniqueness(cfg) ==
    \A i, j \in 1..Len(cfg) :
        i < j => /\ cfg[i].Port # cfg[j].Port
                 /\ cfg[i].Instance # cfg[j].Instance

\* the configurations config.Load can return
ValidConfigs == {c \in SeqsUpTo(ProxyEntry, MaxLen) : validateUniqueness(c)}

(***************************************************************************)
(* State.                                                                  *)
(*   pidFile    daemon.pid   : absent, unparsable, or a decimal pid        *)
(*   stateFile  state.json   : absent, unparsable, or a DaemonState        *)
(*   proc       the daemon processes ever spawned, by pid                  *)
(*   lch        the start command in progress (runStartForeground)         *)
(*   stp        the stop command in progress (runStop)                     *)
(*   cfgFile    the configuration file as the list command finds it        *)
(*   lst        the list command in progress (runList)                     *)
(*   store      a state directory of its own on which the State Store      *)
(*              functions are exercised at the level of the file text      *)
(*   fetch      one call of fetchPasswords (list --show-passwords)         *)
(* For the start command and the daemon the configuration file and the     *)
(* ports held by other programs are the environment: whoever reads the one *)
(* or binds the other draws its value.                                     *)
(***************************************************************************)
VARIABLES pidFile, stateFile, proc, lch, stp, fw, conns, cfgFile, lst, store, fetch

vars == <<pidFile, stateFile, proc, lch, stp, fw, conns, cfgFile, lst, store, fetch>>

\* the state of the lifecycle and the state of one forwarder
life == <<pidFile, stateFile, proc, lch, stp>>
fwd == <<fw, conns>>
rest == <<cfgFile, lst, store, fetch>>

\* the list command before it runs
ListIdle == [pc |-> "idle", cfg |-> <<>>, res |-> "none", status |-> "none"]

\* the exercised state directory before anything is written to it
NoStore == [pc |-> "idle"]

\* no call of fetchPasswords
NoFetch == [pc |-> "idle"]

\* proxy.NewListener: no TCP listener, no context, an empty WaitGroup; logged:
\* the accept loop has written "accept error" to the log; close, closes:
\* where the current call of Close is, and how many calls have begun
NewListener ==
    [st |-> "new", bound |-> FALSE, cancelled |-> FALSE, loop |-> FALSE,
     wg |-> 0, close |-> "idle", closes |-> 0, logged |-> FALSE]

NoFile == [kind |-> "none", pid |-> 0, proxies |-> <<>>]
CorruptFile == [kind |-> "corrupt", pid |-> 0, proxies |-> <<>>]

\* strconv.Itoa(pid) written by WritePID
PidText(pid) == [kind |-> "pid", pid |-> pid, proxies |-> <<>>]

\* json.MarshalIndent of a DaemonState: an object {"pid", "proxies": [{"instance",
\* "port", "secret"}, ...]}, each entry as a triple in that field order
MarshalState(pid, proxies) ==
    [kind |-> "json", pid |-> pid,
     proxies |-> [i \in 1..Len(proxies) |->
                    <<proxies[i].Instance, proxies[i].Port, proxies[i].Secret>>]]

\* a decoder whose "secret" key does not match the encoder's
UnmarshalProxies_LosesSecret(js) ==
    [i \in 1..Len(js) |-> [Instance |-> js[i][1], Port |-> js[i][2], Secret |-> ""]]

\* json.Unmarshal into DaemonState.Proxies
UnmarshalProxies(js) ==
    [i \in 1..Len(js) |-> [Instance |-> js[i][1], Port |-> js[i][2], Secret |-> js[i][3]]]

\* proxy.ReadPID: <<pid, err>>
ReadPID(f) ==
    IF f.kind = "pid" THEN [pid |-> f.pid, err |-> FALSE]
    ELSE [pid |-> 0, err |-> TRUE]

\* proxy.ReadState: <<state, err>>
ReadState(f) ==
    IF f.kind = "json"
    THEN [PID |-> f.pid, Proxies |-> UnmarshalProxies(f.proxies), err |-> FALSE]
    ELSE [PID |-> 0, Proxies |-> <<>>, err |-> TRUE]

\* the operating system's process table: pid is a process that has not exited
Live(pid) ==
    /\ pid \in DOMAIN proc
    /\ proc[pid].pc \notin {"unborn", "dead"}

\* a liveness test that stops at os.FindProcess, which always succeeds on Unix
IsRunning_FindProcessOnly(pid) == pid \in DOMAIN proc

\* proxy.IsRunning: signal 0 reaches the process
IsRunning(pid) == Live(pid)

\* a comparison that forgets the secret reference
proxiesEqual_IgnoreSecret(a, b) ==
    /\ Len(a) = Len(b)
    /\ \A i \in 1..Len(a) : a[i].Instance = b[i].Instance /\ a[i].Port = b[i].Port

\* cmd.proxiesEqual: same length and equal entries position by position
proxiesEqual(a, b) ==
    /\ Len(a) = Len(b)
    /\ \A i \in 1..Len(a) : a[i] = b[i]

(***************************************************************************)
(* Processes.  A daemon process record:                                    *)
(*   pc    where runDaemon is ("unborn" before the spawn, "dead" after     *)
(*         the process has gone)                                           *)
(*   cfg   the configuration it loaded                                     *)
(*   ls    the listeners it has started, in start order: for each whether  *)
(*         its TCP listener is still bound                                 *)
(*   term, kill   a SIGTERM / SIGKILL has been sent and not yet acted on   *)
(*   exit  how runDaemon returned                                          *)
(***************************************************************************)
Unborn == [pc |-> "unborn", cfg |-> <<>>, ls |-> <<>>, j |-> 0,
           term |-> FALSE, kill |-> FALSE, exit |-> "none"]

\* a daemon that finished startup with configuration c and blocks on sigCh
Serving(c) == [pc |-> "wait", cfg |-> c, ls |-> [i \in 1..Len(c) |-> TRUE], j |-> 0,
               term |-> FALSE, kill |-> FALSE, exit |-> "none"]

\* a process that has exited: the kernel has closed its sockets
Gone == [pc |-> "dead", cfg |-> <<>>, ls |-> <<>>, j |-> 0,
         term |-> FALSE, kill |-> FALSE, exit |-> "none"]

\* the start command before it runs
LIdle == [pc |-> "idle", cfg |-> <<>>, pid |-> 0, decision |-> "none",
          polls |-> 0, stale |-> "none", res |-> "none", report |-> <<>>]

\* the stop command before it runs
SIdle == [pc |-> "idle", pid |-> 0, polls |-> 0, res |-> "none"]

(***************************************************************************)
(* runStartForeground, the check for an existing daemon (lines 60-74).     *)
(***************************************************************************)
\* a check that already removes the files of a dead recorded daemon
LCheckPID_RemovesStale ==
    /\ lch.pc = "checkpid"
    /\ LET r == ReadPID(pidFile) IN
         IF ~r.err /\ IsRunning(r.pid)
         THEN /\ lch' = [lch EXCEPT !.pc = "checkstate", !.pid = r.pid]
              /\ UNCHANGED <<pidFile, stateFile>>
         ELSE /\ lch' = [lch EXCEPT !.pc = "cleanup", !.pid = 0, !.decision = "Start"]
              /\ pidFile' = NoFile /\ stateFile' = NoFile
    /\ UNCHANGED <<proc, stp>>
    /\ UNCHANGED <<fwd, rest>>

\* lines 61-62: ReadPID and IsRunning.  No pid on record or a dead one: fall
\* through to the start path; no pid is handed on.
LCheckPID ==
    /\ lch.pc = "checkpid"
    /\ LET r == ReadPID(pidFile) IN
         IF ~r.err /\ IsRunning(r.pid)
         THEN lch' = [lch EXCEPT !.pc = "checkstate", !.pid = r.pid]
         ELSE lch' = [lch EXCEPT !.pc = "cleanup", !.pid = 0, !.decision = "Start"]
    /\ UNCHANGED <<pidFile, stateFile, proc, stp>>
    /\ UNCHANGED <<fwd, rest>>

\* the state check with the error test inverted: an unreadable state file keeps
LCheckState_KeepOnError ==
    /\ lch.pc = "checkstate"
    /\ LET st == ReadState(stateFile) IN
         IF st.err \/ proxiesEqual(st.Proxies, lch.cfg)
         THEN lch' = [lch EXCEPT !.pc = "done", !.decision = "Keep", !.res = "ok"]
         ELSE lch' = [lch EXCEPT !.pc = "stop_term", !.decision = "Restart"]
    /\ UNCHANGED <<pidFile, stateFile, proc, stp>>
    /\ UNCHANGED <<fwd, rest>>

\* lines 64-73: ReadState and proxiesEqual.  Equal: "Daemon already running",
\* return nil.  Otherwise stopDaemon(pid, stateDir) is called.
LCheckState ==
    /\ lch.pc = "checkstate"
    /\ LET st == ReadState(stateFile) IN
         IF ~st.err /\ proxiesEqual(st.Proxies, lch.cfg)
         THEN lch' = [lch EXCEPT !.pc = "done", !.decision = "Keep", !.res = "ok"]
         ELSE lch' = [lch EXCEPT !.pc = "stop_term", !.decision = "Restart"]
    /\ UNCHANGED <<pidFile, stateFile, proc, stp>>
    /\ UNCHANGED <<fwd, rest>>

(***************************************************************************)
(* SpecDecide: the decision alone, on every combination of a desired       *)
(* configuration, an identity file, a state file and a live or dead        *)
(* recorded process.                                                       *)
(***************************************************************************)
DecidePids == {1}

InitDecide ==
    /\ \E c \in ValidConfigs : lch = [LIdle EXCEPT !.pc = "checkpid", !.cfg = c]
    /\ pidFile \in {NoFile, CorruptFile} \cup {PidText(p) : p \in DecidePids}
    /\ \E alive \in BOOLEAN :
         \/ \E c \in ValidConfigs :
              /\ stateFile = MarshalState(1, c)
              /\ proc = [p \in DecidePids |->
                           IF p = 1 /\ alive THEN Serving(c)
                           ELSE IF p = 1 THEN Gone ELSE Unborn]
         \/ /\ stateFile \in {NoFile, CorruptFile}
            /\ proc = [p \in DecidePids |->
                         IF p = 1 /\ alive THEN Serving(lch.cfg)
                         ELSE IF p = 1 THEN Gone ELSE Unborn]
    /\ stp = SIdle
    /\ fw = NewListener
    /\ conns = <<>>
    /\ cfgFile = <<>>
    /\ lst = ListIdle
    /\ store = NoStore
    /\ fetch = NoFetch

NextDecide == LCheckPID \/ LCheckState

SpecDecide == InitDecide /\ [][NextDecide]_vars

(***************************************************************************)
(* The lifecycle model: one start command and one stop command, each       *)
(* invoked again and again, the configuration file edited at will, and     *)
(* the daemons the start command spawns.                                   *)
(***************************************************************************)
\* iterations of runStop's liveness poll before the deadline has passed (the
\* code's 5 s at one poll per 100 ms, scaled down)
MaxPolls == 1

\* the pids of the daemon processes spawned in one behaviour
Pids == {1, 2}

ProxyA == [Instance |-> "db-a", Port |-> 5432, Secret |-> "sec-a"]
ProxyB == [Instance |-> "db-b", Port |-> 5433, Secret |-> "sec-b"]

\* what config.Load finds in the configuration file when it reads it: a
\* file it rejects, or one of these configurations
LifeConfigs == {<<ProxyA, ProxyB>>, <<ProxyB, ProxyA>>}

\* the ports process q holds: its listeners that are still bound
PortsOf(q) == {proc[q].cfg[i].Port : i \in {k \in 1..Len(proc[q].ls) : proc[q].ls[k]}}

\* no daemon holds the port
PortFree(port) == \A q \in Pids : port \notin PortsOf(q)

\* proxy.RemoveStateFiles: both files are removed, a missing one is no error
RemoveStateFiles ==
    /\ pidFile' = NoFile
    /\ stateFile' = NoFile

\* process p ends
Exited(p) == [proc EXCEPT ![p] = Gone]

\* a Close that leaves the TCP listener bound
CloseAt_LeavesBound(p) == proc[p].ls

\* Listener.Close on the listener at index j of `listeners`: the TCP listener
\* is closed, the port released
CloseAt(p) == [proc[p].ls EXCEPT ![proc[p].j] = FALSE]

\* a posted signal is delivered before the process runs on: with a SIGKILL
\* posted, or a SIGTERM that no handler takes, the code takes no further step
Undisturbed(p) ==
    /\ ~proc[p].kill
    /\ proc[p].term => \/ proc[p].pc \in {"wait", "sd_close", "sd_remove"}
                       \/ (proc[p].pc = "exit" /\ proc[p].exit = "ok")

\* the shared dialer of daemon p is open: from cloudsqlconn.NewDialer (line
\* 148) to the deferred dialer.Close() (line 152), which runs when runDaemon
\* returns
DialerOpen(p) ==
    proc[p].pc \in {"bind", "rb_close", "rb_remove", "writestate", "wait",
                    "sd_close", "sd_remove", "exit"}

(***************************************************************************)
(* runDaemon (part_000 lines 130-197).                                     *)
(***************************************************************************)
\* a runDaemon that goes on after WritePID failed
DWritePID_IgnoresError(p) ==
    /\ Undisturbed(p)
    /\ proc[p].pc = "writepid"
    /\ \/ /\ pidFile' = PidText(p)
          /\ proc' = [proc EXCEPT ![p].pc = "load"]
       \/ /\ proc' = [proc EXCEPT ![p].pc = "load"]
          /\ UNCHANGED pidFile
    /\ UNCHANGED <<stateFile, lch, stp>>
    /\ UNCHANGED <<fwd, rest>>

\* lines 136-139: WritePID, or return the error
DWritePID(p) ==
    /\ Undisturbed(p)
    /\ proc[p].pc = "writepid"
    /\ \/ /\ pidFile' = PidText(p)
          /\ proc' = [proc EXCEPT ![p].pc = "load"]
       \/ /\ proc' = Exited(p)
          /\ UNCHANGED pidFile
    /\ UNCHANGED <<stateFile, lch, stp>>
    /\ UNCHANGED <<fwd, rest>>

\* lines 141-155: config.Load and cloudsqlconn.NewDialer; either error is
\* returned at once
DLoad(p) ==
    /\ Undisturbed(p)
    /\ proc[p].pc = "load"
    /\ \/ proc' = Exited(p)
       \/ \E c \in LifeConfigs :
            proc' = [proc EXCEPT ![p].cfg = c,
                                 ![p].pc = IF Len(c) = 0 THEN "writestate" ELSE "bind"]
    /\ UNCHANGED <<pidFile, stateFile, lch, stp>>
    /\ UNCHANGED <<fwd, rest>>

\* a start loop that goes on after a failed bind
DBind_IgnoresFailure(p) ==
    /\ Undisturbed(p)
    /\ proc[p].pc = "bind"
    /\ LET i == Len(proc[p].ls) + 1 IN
         proc' = [proc EXCEPT ![p].ls = Append(@, PortFree(proc[p].cfg[i].Port)),
                              ![p].pc = IF i = Len(proc[p].cfg) THEN "writestate"
                                        ELSE "bind"]
    /\ UNCHANGED <<pidFile, stateFile, lch, stp>>
    /\ UNCHANGED <<fwd, rest>>

\* lines 159-172, one iteration: Listener.Start binds the next port, or, the
\* port being held by a daemon or by another program, the failure branch is
\* entered
DBind(p) ==
    /\ Undisturbed(p)
    /\ proc[p].pc = "bind"
    /\ LET i == Len(proc[p].ls) + 1 IN
         \/ /\ PortFree(proc[p].cfg[i].Port)
            /\ proc' = [proc EXCEPT ![p].ls = Append(@, TRUE),
                                    ![p].pc = IF i = Len(proc[p].cfg) THEN "writestate"
                                              ELSE "bind"]
         \/ proc' = [proc EXCEPT ![p].pc = IF i = 1 THEN "rb_remove" ELSE "rb_close",
                                 ![p].j = 1]
    /\ UNCHANGED <<pidFile, stateFile, lch, stp>>
    /\ UNCHANGED <<fwd, rest>>

\* lines 164-166, one iteration: started.Close() on the listeners already
\* started, in the order of `listeners`
DRollbackClose(p) ==
    /\ Undisturbed(p)
    /\ proc[p].pc = "rb_close"
    /\ proc' = [proc EXCEPT ![p].ls = CloseAt(p),
                            ![p].j = @ + 1,
                            ![p].pc = IF proc[p].j = Len(proc[p].ls) THEN "rb_remove"
                                      ELSE "rb_close"]
    /\ UNCHANGED <<pidFile, stateFile, lch, stp>>
    /\ UNCHANGED <<fwd, rest>>

\* lines 167-168: RemoveStateFiles and return err
DRollbackRemove(p) ==
    /\ Undisturbed(p)
    /\ proc[p].pc = "rb_remove"
    /\ RemoveStateFiles
    /\ proc' = [proc EXCEPT ![p].pc = "exit", ![p].exit = "err_bind"]
    /\ UNCHANGED <<lch, stp>>
    /\ UNCHANGED <<fwd, rest>>

\* lines 174-186: WriteState (a failure is only logged), then signal.Notify
DWriteState(p) ==
    /\ Undisturbed(p)
    /\ proc[p].pc = "writestate"
    /\ \/ stateFile' = MarshalState(p, proc[p].cfg)
       \/ UNCHANGED stateFile
    /\ proc' = [proc EXCEPT ![p].pc = "wait"]
    /\ UNCHANGED <<pidFile, lch, stp>>
    /\ UNCHANGED <<fwd, rest>>

\* lines 187-190: a signal arrives on sigCh; cancel()
DOnSignal(p) ==
    /\ Undisturbed(p)
    /\ proc[p].pc = "wait"
    /\ proc[p].term
    /\ proc' = [proc EXCEPT ![p].term = FALSE,
                            ![p].j = 1,
                            ![p].pc = IF Len(proc[p].ls) = 0 THEN "sd_remove"
                                      ELSE "sd_close"]
    /\ UNCHANGED <<pidFile, stateFile, lch, stp>>
    /\ UNCHANGED <<fwd, rest>>

\* lines 191-193, one iteration: l.Close()
DShutdownClose(p) ==
    /\ Undisturbed(p)
    /\ proc[p].pc = "sd_close"
    /\ proc' = [proc EXCEPT ![p].ls = CloseAt(p),
                            ![p].j = @ + 1,
                            ![p].pc = IF proc[p].j = Len(proc[p].ls) THEN "sd_remove"
                                      ELSE "sd_close"]
    /\ UNCHANGED <<pidFile, stateFile, lch, stp>>
    /\ UNCHANGED <<fwd, rest>>

\* lines 194-196: RemoveStateFiles and return nil
DShutdownRemove(p) ==
    /\ Undisturbed(p)
    /\ proc[p].pc = "sd_remove"
    /\ RemoveStateFiles
    /\ proc' = [proc EXCEPT ![p].pc = "exit", ![p].exit = "ok"]
    /\ UNCHANGED <<lch, stp>>
    /\ UNCHANGED <<fwd, rest>>

\* runDaemon has returned: the deferred dialer.Close() and cancel() run and
\* the process exits
DExit(p) ==
    /\ Undisturbed(p)
    /\ proc[p].pc = "exit"
    /\ proc' = Exited(p)
    /\ UNCHANGED <<pidFile, stateFile, lch, stp>>
    /\ UNCHANGED <<fwd, rest>>

\* a SIGTERM reaches a daemon that has not called signal.Notify (line 186)
\* yet, or has already left the signal wait: the default action ends the process
\* (after line 187 the one-slot sigCh takes the signal and nobody reads it)
DTermDefault(p) ==
    /\ Live(p)
    /\ proc[p].term
    /\ proc[p].pc # "wait"
    /\ IF proc[p].pc \in {"sd_close", "sd_remove"}
          \/ (proc[p].pc = "exit" /\ proc[p].exit = "ok")
       THEN proc' = [proc EXCEPT ![p].term = FALSE]
       ELSE proc' = Exited(p)
    /\ UNCHANGED <<pidFile, stateFile, lch, stp>>
    /\ UNCHANGED <<fwd, rest>>

\* a SIGKILL takes effect
DKilled(p) ==
    /\ Live(p)
    /\ proc[p].kill
    /\ proc' = Exited(p)
    /\ UNCHANGED <<pidFile, stateFile, lch, stp>>
    /\ UNCHANGED <<fwd, rest>>

Daemon(p) ==
    \/ DWritePID(p) \/ DLoad(p) \/ DBind(p)
    \/ DRollbackClose(p) \/ DRollbackRemove(p)
    \/ DWriteState(p)
    \/ DOnSignal(p) \/ DShutdownClose(p) \/ DShutdownRemove(p)
    \/ DExit(p) \/ DTermDefault(p) \/ DKilled(p)

(***************************************************************************)
(* runStop (stop.go lines 24-67).                                          *)
(***************************************************************************)
StopReturn(res) == [SIdle EXCEPT !.pc = "done", !.res = res]

\* lines 27-35: no pid on record: nothing is removed; a stale pid: both files
\* are removed; either way "No daemon is running."
SRead ==
    /\ stp.pc \in {"idle", "done"}
    /\ LET r == ReadPID(pidFile) IN
         IF r.err
         THEN /\ stp' = StopReturn("none_running")
              /\ UNCHANGED <<pidFile, stateFile>>
         ELSE IF ~IsRunning(r.pid)
         THEN /\ stp' = StopReturn("none_running")
              /\ RemoveStateFiles
         ELSE /\ stp' = [SIdle EXCEPT !.pc = "term", !.pid = r.pid]
              /\ UNCHANGED <<pidFile, stateFile>>
    /\ UNCHANGED <<proc, lch>>
    /\ UNCHANGED <<fwd, rest>>

\* lines 37-48: SIGTERM; a process that is gone by now makes Signal fail
STerm ==
    /\ stp.pc = "term"
    /\ IF Live(stp.pid)
       THEN /\ proc' = [proc EXCEPT ![stp.pid].term = TRUE]
            /\ stp' = [stp EXCEPT !.pc = "poll"]
            /\ UNCHANGED <<pidFile, stateFile>>
       ELSE /\ RemoveStateFiles
            /\ stp' = StopReturn("none_running")
            /\ UNCHANGED proc
    /\ UNCHANGED <<lch>>
    /\ UNCHANGED <<fwd, rest>>

\* lines 52-59, one iteration before the deadline: the process is gone, or
\* sleep 100 ms
SPoll ==
    /\ stp.pc = "poll"
    /\ stp.polls < MaxPolls
    /\ IF ~IsRunning(stp.pid)
       THEN /\ RemoveStateFiles
            /\ stp' = StopReturn("stopped")
       ELSE /\ stp' = [stp EXCEPT !.polls = @ + 1]
            /\ UNCHANGED <<pidFile, stateFile>>
    /\ UNCHANGED <<proc, lch>>
    /\ UNCHANGED <<fwd, rest>>

\* line 62: the deadline has passed; SIGKILL, its error ignored
SKill ==
    /\ stp.pc = "poll"
    /\ stp.polls = MaxPolls
    /\ proc' = IF Live(stp.pid) THEN [proc EXCEPT ![stp.pid].kill = TRUE] ELSE proc
    /\ stp' = [stp EXCEPT !.pc = "killed"]
    /\ UNCHANGED <<pidFile, stateFile, lch>>
    /\ UNCHANGED <<fwd, rest>>

\* lines 63-66: after the 100 ms sleep, RemoveStateFiles and "Daemon stopped."
SFinish ==
    /\ stp.pc = "killed"
    /\ RemoveStateFiles
    /\ stp' = StopReturn("stopped")
    /\ UNCHANGED <<proc, lch>>
    /\ UNCHANGED <<fwd, rest>>

Stop == SRead \/ STerm \/ SPoll \/ SKill \/ SFinish

(***************************************************************************)
(* runStartForeground (part_000 lines 44-120), around the daemon check.    *)
(***************************************************************************)
StartReturn(res) == [LIdle EXCEPT !.pc = "done", !.res = res, !.decision = lch.decision]

\* a start command that clears the state directory before its preflight
LBegin_CleansFirst ==
    /\ lch.pc \in {"idle", "done"}
    /\ \/ /\ \E e \in {"err_adc", "err_config"} :
               lch' = [LIdle EXCEPT !.pc = "done", !.res = e]
          /\ RemoveStateFiles
       \/ /\ \E c \in LifeConfigs : lch' = [LIdle EXCEPT !.pc = "checkpid", !.cfg = c]
          /\ UNCHANGED <<pidFile, stateFile>>
    /\ UNCHANGED <<proc, stp>>
    /\ UNCHANGED <<fwd, rest>>

\* lines 47-58: preflight.CheckADC fails, or config.Load fails, and the error
\* is returned; or both succeed
LBegin ==
    /\ lch.pc \in {"idle", "done"}
    /\ \/ \E e \in {"err_adc", "err_config"} :
            lch' = [LIdle EXCEPT !.pc = "done", !.res = e]
       \/ \E c \in LifeConfigs : lch' = [LIdle EXCEPT !.pc = "checkpid", !.cfg = c]
    /\ UNCHANGED <<pidFile, stateFile, proc, stp>>
    /\ UNCHANGED <<fwd, rest>>

\* line 71, stopDaemon(pid, stateDir): the stop protocol of runStop lines 37-66
\* run against lch.pid: SIGTERM
LStopTerm ==
    /\ lch.pc = "stop_term"
    /\ IF Live(lch.pid)
       THEN /\ proc' = [proc EXCEPT ![lch.pid].term = TRUE]
            /\ lch' = [lch EXCEPT !.pc = "stop_poll", !.decision = "none"]
            /\ UNCHANGED <<pidFile, stateFile>>
       ELSE /\ RemoveStateFiles
            /\ lch' = [lch EXCEPT !.pc = "cleanup", !.decision = "none"]
            /\ UNCHANGED proc
    /\ UNCHANGED stp
    /\ UNCHANGED <<fwd, rest>>

\* stopDaemon: one poll before the deadline
LStopPoll ==
    /\ lch.pc = "stop_poll"
    /\ lch.polls < MaxPolls
    /\ IF ~IsRunning(lch.pid)
       THEN /\ RemoveStateFiles
            /\ lch' = [lch EXCEPT !.pc = "cleanup"]
       ELSE /\ lch' = [lch EXCEPT !.polls = @ + 1]
            /\ UNCHANGED <<pidFile, stateFile>>
    /\ UNCHANGED <<proc, stp>>
    /\ UNCHANGED <<fwd, rest>>

\* stopDaemon: the deadline has passed, SIGKILL
LStopKill ==
    /\ lch.pc = "stop_poll"
    /\ lch.polls = MaxPolls
    /\ proc' = IF Live(lch.pid) THEN [proc EXCEPT ![lch.pid].kill = TRUE] ELSE proc
    /\ lch' = [lch EXCEPT !.pc = "stop_killed"]
    /\ UNCHANGED <<pidFile, stateFile, stp>>
    /\ UNCHANGED <<fwd, rest>>

\* stopDaemon: after the sleep, remove the files and return nil
LStopFinish ==
    /\ lch.pc = "stop_killed"
    /\ RemoveStateFiles
    /\ lch' = [lch EXCEPT !.pc = "cleanup"]
    /\ UNCHANGED <<proc, stp>>
    /\ UNCHANGED <<fwd, rest>>

\* a cleanup that does not ask whether the recorded process is running
CleanupStale_IgnoresLiveness ==
    IF ReadPID(pidFile).err THEN "ok_nofile" ELSE "ok_removed"

\* proxy.CleanupStale (daemon.go lines 89-101), its result: nil with nothing
\* to clean, an error for a running daemon, nil after removing both files
CleanupStale ==
    LET r == ReadPID(pidFile) IN
      IF r.err THEN "ok_nofile"
      ELSE IF IsRunning(r.pid) THEN "err_running"
      ELSE "ok_removed"

\* line 77: proxy.CleanupStale(stateDir), its result dropped
LCleanup ==
    /\ lch.pc = "cleanup"
    /\ IF CleanupStale = "ok_removed"
       THEN RemoveStateFiles
       ELSE UNCHANGED <<pidFile, stateFile>>
    /\ lch' = [lch EXCEPT !.pc = "spawn", !.polls = 0, !.decision = "none",
                          !.stale = CleanupStale]
    /\ UNCHANGED <<proc, stp>>
    /\ UNCHANGED <<fwd, rest>>

\* lines 79-103: re-exec with --daemon in a new session; any error before the
\* child runs is returned
LSpawn ==
    /\ lch.pc = "spawn"
    /\ \/ /\ lch' = StartReturn("error")
          /\ UNCHANGED proc
       \/ /\ \E p \in Pids :
               /\ proc[p].pc = "unborn"
               /\ \A q \in Pids : q < p => proc[q].pc # "unborn"
               /\ proc' = [proc EXCEPT ![p].pc = "writepid"]
          /\ lch' = [lch EXCEPT !.pc = "probe", !.pid = 0, !.stale = "none"]
    /\ UNCHANGED <<pidFile, stateFile, stp>>
    /\ UNCHANGED <<fwd, rest>>

\* what net.DialTimeout to a local port can give: a port somebody listens on
\* connects; a port no daemon holds connects only if another program holds it
DialOutcomes(port) == IF PortFree(port) THEN {"started", "failed"} ELSE {"started"}

\* a probe loop that gives up with the error of the first failed connect
LProbe_ReturnsDialError ==
    /\ lch.pc = "probe"
    /\ Len(lch.report) < Len(lch.cfg)
    /\ \E r \in DialOutcomes(lch.cfg[Len(lch.report) + 1].Port) :
         lch' = IF r = "failed" THEN StartReturn("error")
                ELSE [lch EXCEPT !.report = Append(@, r)]
    /\ UNCHANGED <<pidFile, stateFile, proc, stp>>
    /\ UNCHANGED <<fwd, rest>>

\* lines 105-117 (after the 500 ms sleep), one iteration: dial the next
\* endpoint's port and print "started" or "failed to start" for it
LProbe ==
    /\ lch.pc = "probe"
    /\ Len(lch.report) < Len(lch.cfg)
    /\ \E r \in DialOutcomes(lch.cfg[Len(lch.report) + 1].Port) :
         lch' = [lch EXCEPT !.report = Append(@, r)]
    /\ UNCHANGED <<pidFile, stateFile, proc, stp>>
    /\ UNCHANGED <<fwd, rest>>

\* line 119: every endpoint has been probed; return nil
LProbeReturn ==
    /\ lch.pc = "probe"
    /\ Len(lch.report) = Len(lch.cfg)
    /\ lch' = StartReturn("ok")
    /\ UNCHANGED <<pidFile, stateFile, proc, stp>>
    /\ UNCHANGED <<fwd, rest>>

Launcher ==
    \/ LBegin \/ LCheckPID \/ LCheckState
    \/ LStopTerm \/ LStopPoll \/ LStopKill \/ LStopFinish
    \/ LCleanup \/ LSpawn \/ LProbe \/ LProbeReturn

Init ==
    /\ pidFile = NoFile
    /\ stateFile = NoFile
    /\ proc = [p \in Pids |-> Unborn]
    /\ lch = LIdle
    /\ stp = SIdle
    /\ fw = NewListener
    /\ conns = <<>>
    /\ cfgFile = <<>>
    /\ lst = ListIdle
    /\ store = NoStore
    /\ fetch = NoFetch

Next ==
    \/ Launcher
    \/ Stop
    \/ \E p \in Pids : Daemon(p)

Spec == Init /\ [][Next]_vars

(***************************************************************************)
(* SpecRollback: the start loop of one daemon and its rollback, over       *)
(* configurations of up to MaxListeners endpoints, any of whose binds may  *)
(* fail.                                                                   *)
(***************************************************************************)
MaxListeners == 3

ProxyC == [Instance |-> "db-c", Port |-> 5434, Secret |-> "sec-c"]

\* the valid configurations config.Load can return to the daemon here
RollbackConfigs ==
    {c \in SeqsUpTo({ProxyA, ProxyB, ProxyC}, MaxListeners) :
        Len(c) > 0 /\ validateUniqueness(c)}

\* daemon 1 has written its identity, loaded a configuration and created the
\* dialer: it enters the start loop (line 158)
InitRollback ==
    /\ pidFile = PidText(1)
    /\ stateFile = NoFile
    /\ \E c \in RollbackConfigs :
         proc = [p \in Pids |-> IF p = 1 THEN [Unborn EXCEPT !.pc = "bind", !.cfg = c]
                                ELSE Unborn]
    /\ lch = LIdle
    /\ stp = SIdle
    /\ fw = NewListener
    /\ conns = <<>>
    /\ cfgFile = <<>>
    /\ lst = ListIdle
    /\ store = NoStore
    /\ fetch = NoFetch

NextRollback ==
    \/ DBind(1)
    \/ DRollbackClose(1)
    \/ DRollbackRemove(1)
    \/ DWriteState(1)
    \/ DExit(1)

SpecRollback == InitRollback /\ [][NextRollback]_vars

(***************************************************************************)
(* SpecTwoStarts: start commands alone, none of which gets to restart a    *)
(* daemon, over one unchanging configuration file and with nothing failing *)
(* for an outside reason: credentials and configuration load, the spawn    *)
(* and the file writes succeed, and a bind fails only on a port a daemon   *)
(* holds.  A start command that has returned leaves its daemon starting    *)
(* up, so the next command's steps interleave with it, as the steps of a   *)
(* second command invoked at the same time would.  Both daemons bind the   *)
(* same ports in the same order, so the one that loses fails on its first  *)
(* port and has no listener to close before it removes the files.          *)
(***************************************************************************)
\* what the configuration file holds throughout
SameConfig == <<ProxyA, ProxyB>>

\* in this step of the start loop the bind succeeds unless a daemon holds the
\* port: no other program is in the way
BindFailsOnlyIfHeld(p) ==
    PortFree(proc[p].cfg[Len(proc[p].ls) + 1].Port) => Len(proc'[p].ls) > Len(proc[p].ls)

InitTwoStarts ==
    /\ pidFile = NoFile
    /\ stateFile = NoFile
    /\ proc = [p \in Pids |-> Unborn]
    /\ lch = LIdle
    /\ stp = SIdle
    /\ fw = NewListener
    /\ conns = <<>>
    /\ cfgFile = <<>>
    /\ lst = ListIdle
    /\ store = NoStore
    /\ fetch = NoFetch

NextTwoStarts ==
    \/ LBegin /\ lch'.cfg = SameConfig
    \/ LCheckPID
    \/ LCheckState
    \/ LCleanup
    \/ LSpawn /\ lch'.pc = "probe"
    \/ LProbe
    \/ LProbeReturn
    \/ \E p \in Pids : DWritePID(p) /\ pidFile' = PidText(p)
    \/ \E p \in Pids : DLoad(p) /\ proc'[p].cfg = SameConfig
    \/ \E p \in Pids : DBind(p) /\ BindFailsOnlyIfHeld(p)
    \/ \E p \in Pids : DRollbackRemove(p)
    \/ \E p \in Pids : DWriteState(p) /\ stateFile' = MarshalState(p, proc[p].cfg)
    \/ \E p \in Pids : DExit(p)

SpecTwoStarts == InitTwoStarts /\ [][NextTwoStarts]_vars

(***************************************************************************)
(* SpecStopStart: one stop command and one start command, in any           *)
(* interleaving, against a daemon that serves and is on record.  The       *)
(* configuration file holds SameConfig; the daemon serves it or, the file  *)
(* having been edited since, the other configuration.  Nothing fails for   *)
(* an outside reason, as in SpecTwoStarts.                                 *)
(***************************************************************************)
InitStopStart ==
    /\ \E c \in LifeConfigs :
         /\ proc = [p \in Pids |-> IF p = 1 THEN Serving(c) ELSE Unborn]
         /\ stateFile = MarshalState(1, c)
    /\ pidFile = PidText(1)
    /\ lch = LIdle
    /\ stp = SIdle
    /\ fw = NewListener
    /\ conns = <<>>
    /\ cfgFile = <<>>
    /\ lst = ListIdle
    /\ store = NoStore
    /\ fetch = NoFetch

NextStopStart ==
    \/ LBegin /\ lch.pc = "idle" /\ lch'.cfg = SameConfig
    \/ LCheckPID
    \/ LCheckState
    \/ LStopTerm
    \/ LStopPoll
    \/ LStopKill
    \/ LStopFinish
    \/ LCleanup
    \/ LSpawn /\ lch'.pc = "probe"
    \/ LProbe
    \/ LProbeReturn
    \/ SRead /\ stp.pc = "idle"
    \/ STerm
    \/ SPoll
    \/ SKill
    \/ SFinish
    \/ \E p \in Pids : DWritePID(p) /\ pidFile' = PidText(p)
    \/ \E p \in Pids : DLoad(p) /\ proc'[p].cfg = SameConfig
    \/ \E p \in Pids : DBind(p) /\ BindFailsOnlyIfHeld(p)
    \/ \E p \in Pids : DRollbackClose(p)
    \/ \E p \in Pids : DRollbackRemove(p)
    \/ \E p \in Pids : DWriteState(p) /\ stateFile' = MarshalState(p, proc[p].cfg)
    \/ \E p \in Pids : DOnSignal(p)
    \/ \E p \in Pids : DShutdownClose(p)
    \/ \E p \in Pids : DShutdownRemove(p)
    \/ \E p \in Pids : DExit(p)
    \/ \E p \in Pids : DTermDefault(p)
    \/ \E p \in Pids : DKilled(p)

SpecStopStart == InitStopStart /\ [][NextStopStart]_vars

(***************************************************************************)
(* The forwarder: one proxy.Listener (proxy.go), the connections it        *)
(* accepts, and for each connection the two io.Copy directions.            *)
(***************************************************************************)
\* connections accepted in one behaviour, bytes the peers write in one behaviour
MaxConns == 2
MaxBytes == 2

Bytes == {0, 1}
Dirs == {"c2r", "r2c"}

\* one direction of a connection: what the sending peer has written and
\* whether it has ended its stream, what io.Copy has read, the chunk it holds,
\* what it has written to the receiving socket, and how io.Copy ended
NewDir ==
    [sent |-> <<>>, src |-> "open", rd |-> 0, buf |-> <<>>, del |-> <<>>, st |-> "run"]

\* a connection Accept has returned: handleConn is about to dial.  cs, rs:
\* the forwarder's end of the client / remote socket is open; dial: how
\* Dial returned
NewConn ==
    [pc |-> "dial", cs |-> TRUE, rs |-> FALSE, dial |-> "none",
     c2r |-> NewDir, r2c |-> NewDir]

\* the bytes the peers have written so far on connections 1..n
RECURSIVE Written(_)
Written(n) ==
    IF n = 0 THEN 0
    ELSE Len(conns[n].c2r.sent) + Len(conns[n].r2c.sent) + Written(n - 1)

IsPrefix(a, b) == Len(a) <= Len(b) /\ SubSeq(b, 1, Len(a)) = a

\* a Read that loses its position and returns the head of the stream again
ReadChunk_FromStart(d, n) == SubSeq(d.sent, 1, n)

\* src.Read inside io.Copy: the next n unread bytes of the stream
ReadChunk(d, n) == SubSeq(d.sent, d.rd + 1, d.rd + n)

\* a Start that goes on after net.Listen failed
Start_Listen_IgnoresError ==
    /\ fw.st = "new"
    /\ \/ fw' = [fw EXCEPT !.st = "bound"]
       \/ fw' = [fw EXCEPT !.st = "bound", !.bound = TRUE]
    /\ UNCHANGED <<conns, life, rest>>

\* Listener.Start lines 36-41: net.Listen fails and the error is returned, or
\* the listener is bound
Start_Listen ==
    /\ fw.st = "new"
    /\ \/ fw' = [fw EXCEPT !.st = "failed"]
       \/ fw' = [fw EXCEPT !.st = "bound", !.bound = TRUE]
    /\ UNCHANGED <<conns, life, rest>>

\* Listener.Start lines 42-47: the context is derived, and the accept loop
\* started with wg.Add(1); Start returns nil
Start_Go ==
    /\ fw.st = "bound"
    /\ fw' = [fw EXCEPT !.st = "started", !.loop = TRUE, !.wg = 1]
    /\ UNCHANGED <<conns, life, rest>>

\* Listener.Start (lines 35-48)
Start == Start_Listen \/ Start_Go

\* an accept loop that starts handleConn without wg.Add(1)
acceptLoop_Accept_NoAdd ==
    /\ fw.loop
    /\ fw.bound
    /\ Len(conns) < MaxConns
    /\ conns' = Append(conns, NewConn)
    /\ UNCHANGED fw
    /\ UNCHANGED <<life, rest>>

\* acceptLoop lines 53, 63-64: Accept returns a connection; wg.Add(1) and
\* go handleConn.  l.ctx is not looked at on this branch.
acceptLoop_Accept ==
    /\ fw.loop
    /\ fw.bound
    /\ Len(conns) < MaxConns
    /\ conns' = Append(conns, NewConn)
    /\ fw' = [fw EXCEPT !.wg = @ + 1]
    /\ UNCHANGED <<life, rest>>

\* an accept loop that goes back to Accept after logging the error
acceptLoop_Error_Continues ==
    /\ fw.loop
    /\ fw' = [fw EXCEPT !.logged = ~fw.cancelled]
    /\ UNCHANGED <<conns, life, rest>>

\* acceptLoop lines 54-62 with the deferred wg.Done: Accept fails (the
\* listener was closed, or any other error) and the loop returns, silently
\* if l.ctx is done and after log.Printf otherwise
acceptLoop_Error ==
    /\ fw.loop
    /\ fw' = [fw EXCEPT !.loop = FALSE, !.wg = @ - 1, !.logged = ~fw.cancelled]
    /\ UNCHANGED <<conns, life, rest>>

\* a dial failure that takes the whole forwarder down
handleConn_Dial_StopsForwarder(c) ==
    /\ conns[c].pc = "dial"
    /\ conns' = [conns EXCEPT ![c].pc = "done", ![c].dial = "failed", ![c].cs = FALSE]
    /\ fw' = [fw EXCEPT !.wg = @ - 1, !.bound = FALSE]
    /\ UNCHANGED <<life, rest>>

\* handleConn lines 72-77: Dial(l.ctx, ...) fails and the deferred
\* clientConn.Close and wg.Done run, or it succeeds and both copies start
handleConn_Dial(c) ==
    /\ conns[c].pc = "dial"
    /\ \/ /\ conns' = [conns EXCEPT ![c].pc = "done", ![c].dial = "failed",
                                     ![c].cs = FALSE]
          /\ fw' = [fw EXCEPT !.wg = @ - 1]
       \/ /\ conns' = [conns EXCEPT ![c].pc = "pump", ![c].dial = "ok",
                                     ![c].rs = TRUE]
          /\ UNCHANGED fw
    /\ UNCHANGED <<life, rest>>

\* the peer on the sending side of direction d writes a byte
PeerWrite(c, d) ==
    /\ conns[c].pc = "pump"
    /\ conns[c][d].src = "open"
    /\ Written(Len(conns)) < MaxBytes
    /\ \E b \in Bytes : conns' = [conns EXCEPT ![c][d].sent = Append(@, b)]
    /\ UNCHANGED <<fw, life, rest>>

\* the peer on the sending side of direction d ends its stream: it closes
\* (end-of-stream after the bytes written) or the connection breaks
PeerEnd(c, d) ==
    /\ conns[c].pc = "pump"
    /\ conns[c][d].src = "open"
    /\ \E e \in {"eof", "err"} : conns' = [conns EXCEPT ![c][d].src = e]
    /\ UNCHANGED <<fw, life, rest>>

\* io.Copy (lines 82, 85), src.Read: a chunk of the unread bytes; at the
\* end of a closed stream EOF, and io.Copy returns nil; on a broken
\* connection an error, and io.Copy returns it
copy_Read(c, d) ==
    /\ conns[c].pc = "pump"
    /\ conns[c][d].st = "run"
    /\ conns[c][d].buf = <<>>
    /\ LET x == conns[c][d] IN
         \/ \E n \in 1..(Len(x.sent) - x.rd) :
              conns' = [conns EXCEPT ![c][d].buf = ReadChunk(x, n), ![c][d].rd = @ + n]
         \/ /\ x.src = "eof"
            /\ x.rd = Len(x.sent)
            /\ conns' = [conns EXCEPT ![c][d].st = "eof"]
         \/ /\ x.src = "err"
            /\ conns' = [conns EXCEPT ![c][d].st = "err"]
    /\ UNCHANGED <<fw, life, rest>>

\* io.Copy, dst.Write: the whole chunk is written, or the write fails after
\* part of it and io.Copy returns the error
copy_Write(c, d) ==
    /\ conns[c].pc = "pump"
    /\ conns[c][d].st = "run"
    /\ conns[c][d].buf # <<>>
    /\ LET x == conns[c][d] IN
         \/ conns' = [conns EXCEPT ![c][d].del = @ \o x.buf, ![c][d].buf = <<>>]
         \/ \E k \in 0..(Len(x.buf) - 1) :
              conns' = [conns EXCEPT ![c][d].del = @ \o SubSeq(x.buf, 1, k),
                                     ![c][d].buf = <<>>,
                                     ![c][d].st = "err"]
    /\ UNCHANGED <<fw, life, rest>>

\* a handleConn that returns without closing the remote connection
handleConn_Return_LeaksRemote(c) ==
    /\ conns[c].pc = "pump"
    /\ conns[c].c2r.st # "run"
    /\ conns[c].r2c.st # "run"
    /\ conns' = [conns EXCEPT ![c].pc = "done", ![c].cs = FALSE]
    /\ fw' = [fw EXCEPT !.wg = @ - 1]
    /\ UNCHANGED <<life, rest>>

\* handleConn lines 85-87 and the deferred calls: both copies have returned;
\* remoteConn.Close, clientConn.Close, wg.Done
handleConn_Return(c) ==
    /\ conns[c].pc = "pump"
    /\ conns[c].c2r.st # "run"
    /\ conns[c].r2c.st # "run"
    /\ conns' = [conns EXCEPT ![c].pc = "done", ![c].cs = FALSE, ![c].rs = FALSE]
    /\ fw' = [fw EXCEPT !.wg = @ - 1]
    /\ UNCHANGED <<life, rest>>

\* calls of Close on one forwarder in one behaviour
MaxCloses == 2

\* a Close that closes the listener without cancelling l.ctx first
Close_Cancel_SkipsCancel ==
    /\ fw.st \in {"new", "failed", "started"}
    /\ fw.close \in {"idle", "returned"}
    /\ fw.closes < MaxCloses
    /\ fw' = [fw EXCEPT !.close = "cancelled", !.closes = @ + 1]
    /\ UNCHANGED <<conns, life, rest>>

\* a Close that calls l.cancel() without testing it for nil: on a forwarder
\* whose Start never set it the call panics
Close_Cancel_NoNilCheck ==
    /\ fw.st \in {"new", "failed", "started"}
    /\ fw.close \in {"idle", "returned"}
    /\ fw.closes < MaxCloses
    /\ fw' = [fw EXCEPT !.close = IF fw.st = "started" THEN "cancelled" ELSE "panicked",
                        !.closes = @ + 1,
                        !.cancelled = (fw.st = "started")]
    /\ UNCHANGED <<conns, life, rest>>

\* Close lines 90-92: the call begins, on a forwarder never started, one
\* whose Start failed or one whose Start returned nil, no call of Close being
\* in progress; l.cancel(), if Start set it
Close_Cancel ==
    /\ fw.st \in {"new", "failed", "started"}
    /\ fw.close \in {"idle", "returned"}
    /\ fw.closes < MaxCloses
    /\ fw' = [fw EXCEPT !.close = "cancelled", !.closes = @ + 1,
                        !.cancelled = (fw.st = "started")]
    /\ UNCHANGED <<conns, life, rest>>

\* Close lines 93-95: l.listener.Close(), if Start set it; on a listener
\* already closed it returns an error nobody looks at
Close_Listener ==
    /\ fw.close = "cancelled"
    /\ fw' = [fw EXCEPT !.close = "waiting", !.bound = FALSE]
    /\ UNCHANGED <<conns, life, rest>>

\* Close lines 96-97: l.wg.Wait() returns when the counter is zero
Close_Wait ==
    /\ fw.close = "waiting"
    /\ fw.wg = 0
    /\ fw' = [fw EXCEPT !.close = "returned"]
    /\ UNCHANGED <<conns, life, rest>>

InitFwd ==
    /\ fw = NewListener
    /\ conns = <<>>
    /\ cfgFile = <<>>
    /\ lst = ListIdle
    /\ store = NoStore
    /\ fetch = NoFetch
    /\ pidFile = NoFile
    /\ stateFile = NoFile
    /\ proc = [p \in Pids |-> Unborn]
    /\ lch = LIdle
    /\ stp = SIdle

NextFwd ==
    \/ Start
    \/ acceptLoop_Accept
    \/ acceptLoop_Error
    \/ Close_Cancel /\ fw.st # "new" /\ fw.closes = 0
    \/ Close_Listener
    \/ Close_Wait
    \/ \E c \in 1..Len(conns) : handleConn_Dial(c)
    \/ \E c \in 1..Len(conns) : handleConn_Return(c)
    \/ \E c \in 1..Len(conns), d \in Dirs : PeerWrite(c, d)
    \/ \E c \in 1..Len(conns), d \in Dirs : PeerEnd(c, d)
    \/ \E c \in 1..Len(conns), d \in Dirs : copy_Read(c, d)
    \/ \E c \in 1..Len(conns), d \in Dirs : copy_Write(c, d)

SpecFwd == InitFwd /\ [][NextFwd]_vars

(***************************************************************************)
(* SpecClose: a forwarder on which Close is called at any point between    *)
(* calls: before Start, after a failed or a successful Start, and again    *)
(* after a Close that has returned (up to MaxCloses calls).  Start is not  *)
(* called once a Close has begun.  The bytes the connections carry play no *)
(* part here: the peers only end their streams.                            *)
(***************************************************************************)
NextClose ==
    \/ Start_Listen /\ fw.closes = 0
    \/ Start_Go
    \/ acceptLoop_Accept
    \/ acceptLoop_Error
    \/ Close_Cancel
    \/ Close_Listener
    \/ Close_Wait
    \/ \E c \in 1..Len(conns) : handleConn_Dial(c)
    \/ \E c \in 1..Len(conns) : handleConn_Return(c)
    \/ \E c \in 1..Len(conns), d \in Dirs : PeerEnd(c, d)
    \/ \E c \in 1..Len(conns), d \in Dirs : copy_Read(c, d)

SpecClose == InitFwd /\ [][NextClose]_vars

(***************************************************************************)
(* The readers: the list command whole, and the start and the stop         *)
(* command up to what they decide from the files they read, on every       *)
(* combination of a configuration file, an identity file, a state file     *)
(* and a live or dead recorded process.                                    *)
(***************************************************************************)
\* the contents of a configuration file that pass yaml.Unmarshal and the
\* schema: any list of entries, repeats included
RawConfigs == SeqsUpTo(ProxyEntry, MaxLen)

\* config.Load / config.Parse (part_003 lines 39-71) on such a file
Load(file) ==
    IF validateUniqueness(file) THEN [cfg |-> file, err |-> FALSE]
    ELSE [cfg |-> <<>>, err |-> TRUE]

\* runList lines 35-38: config.Load, its error returned
ListLoad ==
    /\ lst.pc \in {"idle", "done"}
    /\ LET r == Load(cfgFile) IN
         IF r.err THEN lst' = [ListIdle EXCEPT !.pc = "done", !.res = "error"]
         ELSE lst' = [ListIdle EXCEPT !.pc = "readstate", !.cfg = r.cfg]
    /\ UNCHANGED <<life, fwd, cfgFile, store, fetch>>

\* a list that reports the ReadState error
ListRead_ReturnsReadError ==
    /\ lst.pc = "readstate"
    /\ LET st == ReadState(stateFile) IN
         lst' = [lst EXCEPT !.pc = "done",
                            !.res = IF st.err THEN "error" ELSE "ok",
                            !.status = IF ~st.err /\ IsRunning(st.PID) THEN "running"
                                       ELSE "stopped"]
    /\ UNCHANGED <<life, fwd, cfgFile, store, fetch>>

\* runList lines 40-46 and 67-88 (without --show-passwords): ReadState and
\* IsRunning(state.PID); every configured proxy is printed with the one
\* status; return nil
ListRead ==
    /\ lst.pc = "readstate"
    /\ LET st == ReadState(stateFile) IN
         lst' = [lst EXCEPT !.pc = "done", !.res = "ok",
                            !.status = IF ~st.err /\ IsRunning(st.PID) THEN "running"
                                       ELSE "stopped"]
    /\ UNCHANGED <<life, fwd, cfgFile, store, fetch>>

InitReaders ==
    /\ cfgFile \in RawConfigs
    /\ \E c \in LifeConfigs : lch = [LIdle EXCEPT !.pc = "checkpid", !.cfg = c]
    /\ pidFile \in {NoFile, CorruptFile} \cup {PidText(p) : p \in DecidePids}
    /\ stateFile \in {NoFile, CorruptFile} \cup {MarshalState(1, c) : c \in LifeConfigs}
    /\ proc \in {[p \in DecidePids |-> Serving(lch.cfg)], [p \in DecidePids |-> Gone]}
    /\ stp = SIdle
    /\ lst = ListIdle
    /\ fw = NewListener
    /\ conns = <<>>
    /\ store = NoStore
    /\ fetch = NoFetch

NextReaders == LCheckPID \/ LCheckState \/ SRead \/ ListLoad \/ ListRead

SpecReaders == InitReaders /\ [][NextReaders]_vars

(***************************************************************************)
(* The State Store at the level of the file text (daemon.go lines 41-77):  *)
(* WritePID / ReadPID and WriteState / ReadState on a state directory of   *)
(* their own.  Text is a sequence of characters; a JSON document is a tree *)
(* of [t, v] nodes whose numbers are text.                                 *)
(***************************************************************************)
Digit == <<"0", "1", "2", "3", "4", "5", "6", "7", "8", "9">>
DigitChars == {Digit[i] : i \in 1..10}
DigitVal(ch) == (CHOOSE i \in 1..10 : Digit[i] = ch) - 1

\* strconv.Itoa
RECURSIVE Itoa(_)
Itoa(n) ==
    IF n < 0 THEN <<"-">> \o Itoa(0 - n)
    ELSE IF n < 10 THEN <<Digit[n + 1]>>
    ELSE Itoa(n \div 10) \o <<Digit[(n % 10) + 1]>>

RECURSIVE ParseUint(_)
ParseUint(t) ==
    IF Len(t) = 0 THEN 0
    ELSE ParseUint(SubSeq(t, 1, Len(t) - 1)) * 10 + DigitVal(t[Len(t)])

IsDigits(t) == Len(t) > 0 /\ \A i \in 1..Len(t) : t[i] \in DigitChars

\* strconv.Atoi: an optional sign, then digits only
Atoi(t) ==
    LET signed == Len(t) > 0 /\ t[1] \in {"-", "+"}
        body == IF signed THEN SubSeq(t, 2, Len(t)) ELSE t
    IN IF ~IsDigits(body) THEN [val |-> 0, err |-> TRUE]
       ELSE [val |-> IF signed /\ t[1] = "-" THEN 0 - ParseUint(body) ELSE ParseUint(body),
             err |-> FALSE]

\* strings.TrimSpace
RECURSIVE TrimSpace(_)
TrimSpace(t) ==
    IF Len(t) > 0 /\ t[1] \in {" ", "\n"} THEN TrimSpace(SubSeq(t, 2, Len(t)))
    ELSE IF Len(t) > 0 /\ t[Len(t)] \in {" ", "\n"} THEN TrimSpace(SubSeq(t, 1, Len(t) - 1))
    ELSE t

\* the nine digits of a nanosecond count, without trailing zeros (the
\* fraction of time.RFC3339Nano; empty for a whole second)
RECURSIVE TrimZeros(_)
TrimZeros(t) ==
    IF Len(t) > 0 /\ t[Len(t)] = "0" THEN TrimZeros(SubSeq(t, 1, Len(t) - 1)) ELSE t

RECURSIVE PadLeft(_, _)
PadLeft(t, n) == IF Len(t) >= n THEN t ELSE PadLeft(<<"0">> \o t, n)

RECURSIVE PadRight(_, _)
PadRight(t, n) == IF Len(t) >= n THEN t ELSE PadRight(t \o <<"0">>, n)

\* a time format that stops at the second (time.RFC3339)
FormatTime_Seconds(tm) == [sec |-> Itoa(tm.sec), frac |-> <<>>]

\* Time.MarshalJSON, time.RFC3339Nano of a UTC instant: the seconds (their
\* calendar form is not modelled) and the fraction
FormatTime(tm) == [sec |-> Itoa(tm.sec), frac |-> TrimZeros(PadLeft(Itoa(tm.nsec), 9))]

\* Time.UnmarshalJSON
ParseTime(x) ==
    IF IsDigits(x.sec) /\ Len(x.frac) <= 9 /\ (x.frac = <<>> \/ IsDigits(x.frac))
    THEN [val |-> [sec |-> ParseUint(x.sec), nsec |-> ParseUint(PadRight(x.frac, 9))],
          err |-> FALSE]
    ELSE [val |-> [sec |-> 0, nsec |-> 0], err |-> TRUE]

JNull == [t |-> "null", v |-> <<>>]

\* json.Marshal of a config.ProxyEntry by its json tags
MarshalEntry(e) ==
    [t |-> "obj",
     v |-> << <<"instance", [t |-> "str", v |-> e.Instance]>>,
              <<"port", [t |-> "num", v |-> Itoa(e.Port)]>>,
              <<"secret", [t |-> "str", v |-> e.Secret]>> >>]

\* json.MarshalIndent of a DaemonState by its json tags (line 60); a nil
\* slice is written as null
MarshalIndent(st) ==
    [t |-> "obj",
     v |-> << <<"pid", [t |-> "num", v |-> Itoa(st.PID)]>>,
              <<"started_at", [t |-> "time", v |-> FormatTime(st.StartedAt)]>>,
              <<"proxies", IF st.Proxies = <<>> THEN JNull
                           ELSE [t |-> "arr",
                                 v |-> [i \in 1..Len(st.Proxies) |->
                                          MarshalEntry(st.Proxies[i])]]>> >>]

\* the value under a key of a JSON object, null when the key is absent
Get(obj, key) ==
    LET idx == {i \in 1..Len(obj.v) : obj.v[i][1] = key}
    IN IF idx = {} THEN JNull ELSE obj.v[CHOOSE i \in idx : TRUE][2]

DecodeInt(x) ==
    IF x.t = "num" THEN Atoi(x.v)
    ELSE [val |-> 0, err |-> x.t # "null"]

DecodeString(x) ==
    IF x.t = "str" THEN [val |-> x.v, err |-> FALSE]
    ELSE [val |-> "", err |-> x.t # "null"]

DecodeTime(x) ==
    IF x.t = "time" THEN ParseTime(x.v)
    ELSE [val |-> [sec |-> 0, nsec |-> 0], err |-> x.t # "null"]

DecodeEntry(x) ==
    IF x.t # "obj" THEN [val |-> [Instance |-> "", Port |-> 0, Secret |-> ""], err |-> TRUE]
    ELSE LET i == DecodeString(Get(x, "instance"))
             p == DecodeInt(Get(x, "port"))
             k == DecodeString(Get(x, "secret"))
         IN [val |-> [Instance |-> i.val, Port |-> p.val, Secret |-> k.val],
             err |-> i.err \/ p.err \/ k.err]

DecodeProxies(x) ==
    IF x.t = "arr"
    THEN [val |-> [i \in 1..Len(x.v) |-> DecodeEntry(x.v[i]).val],
          err |-> \E i \in 1..Len(x.v) : DecodeEntry(x.v[i]).err]
    ELSE [val |-> <<>>, err |-> x.t # "null"]

\* json.Unmarshal into a DaemonState (line 73)
Unmarshal(js) ==
    IF js.t # "obj"
    THEN [PID |-> 0, StartedAt |-> [sec |-> 0, nsec |-> 0], Proxies |-> <<>>, err |-> TRUE]
    ELSE LET p == DecodeInt(Get(js, "pid"))
             s == DecodeTime(Get(js, "started_at"))
             x == DecodeProxies(Get(js, "proxies"))
         IN [PID |-> p.val, StartedAt |-> s.val, Proxies |-> x.val,
             err |-> p.err \/ s.err \/ x.err]

\* the pids and the instants the store is exercised with
StorePids == {0, 7, 42, 12345}
StoreTimes == [sec : {0, 1772013600}, nsec : {0, 5, 120, 500000000, 123456789}]

\* WritePID (lines 41-46): the file holds strconv.Itoa(pid), or the write fails
StoreWritePID ==
    /\ store.ppc = "start"
    /\ \/ store' = [store EXCEPT !.ppc = "written", !.pidTxt = Itoa(store.pid)]
       \/ store' = [store EXCEPT !.ppc = "failed"]
    /\ UNCHANGED <<life, fwd, cfgFile, lst, fetch>>

\* ReadPID (lines 48-54)
StoreReadPID ==
    /\ store.ppc = "written"
    /\ store' = [store EXCEPT !.ppc = "read", !.gotPid = Atoi(TrimSpace(store.pidTxt))]
    /\ UNCHANGED <<life, fwd, cfgFile, lst, fetch>>

\* WriteState (lines 56-65)
StoreWriteState ==
    /\ store.spc = "start"
    /\ \/ store' = [store EXCEPT !.spc = "written", !.stJson = MarshalIndent(store.st)]
       \/ store' = [store EXCEPT !.spc = "failed"]
    /\ UNCHANGED <<life, fwd, cfgFile, lst, fetch>>

\* ReadState (lines 67-77)
StoreReadState ==
    /\ store.spc = "written"
    /\ store' = [store EXCEPT !.spc = "read", !.gotSt = Unmarshal(store.stJson)]
    /\ UNCHANGED <<life, fwd, cfgFile, lst, fetch>>

InitStore ==
    /\ \E p \in StorePids, tm \in StoreTimes, c \in RawConfigs :
         store = [ppc |-> "start", spc |-> "start",
                  pid |-> p,
                  st |-> [PID |-> p, StartedAt |-> tm, Proxies |-> c],
                  pidTxt |-> <<>>, stJson |-> JNull,
                  gotPid |-> [val |-> 0, err |-> TRUE],
                  gotSt |-> Unmarshal(JNull)]
    /\ pidFile = NoFile
    /\ stateFile = NoFile
    /\ proc = [p \in Pids |-> Unborn]
    /\ lch = LIdle
    /\ stp = SIdle
    /\ fw = NewListener
    /\ conns = <<>>
    /\ cfgFile = <<>>
    /\ lst = ListIdle
    /\ fetch = NoFetch

NextStore == StoreWritePID \/ StoreReadPID \/ StoreWriteState \/ StoreReadState

SpecStore == InitStore /\ [][NextStore]_vars

(***************************************************************************)
(* SpecFetch: fetchPasswords (list.go lines 91-122): an errgroup with one  *)
(* task per proxy, each fetching a secret and sending it on the buffered   *)
(* channel `results`.                                                      *)
(*   spawned  how many tasks g.Go has started                              *)
(*   task     per task: "start", "send" (fetched, about to send),          *)
(*            "returned" (nil), "failed" (returned the fetch error)        *)
(*   got      per task: the password it fetched                            *)
(*   results  the channel's buffer                                         *)
(*   err      the errgroup's first error: the index of the task, or 0      *)
(*   ctxDone  the errgroup's context has been cancelled                    *)
(*   passwords, hasMap, res   the map being filled and what is returned    *)
(***************************************************************************)
\* ProxyEntry.Project (part_003 lines 27-33): the instance up to its first
\* colon; the instance names of this model have none
Project(instance) == instance

\* what Secret Manager holds under a project and a secret name
SecretValue(project, name) == <<project, name>>

\* an unbuffered results channel
ResultsCap_Unbuffered(proxies) == 0

\* line 99: make(chan result, len(proxies))
ResultsCap(proxies) == Len(proxies)

\* lines 92-99 done: the map, the group and the channel exist
FetchCall(proxies) ==
    [pc |-> "spawn", proxies |-> proxies, spawned |-> 0,
     task |-> [i \in 1..Len(proxies) |-> "unborn"],
     got |-> [i \in 1..Len(proxies) |-> <<>>],
     results |-> <<>>, err |-> 0, ctxDone |-> FALSE,
     passwords |-> <<>>, hasMap |-> FALSE, res |-> "none"]

\* lines 101-111, one iteration: g.Go starts the task of the next proxy
fetch_Go ==
    /\ fetch.pc = "spawn"
    /\ fetch.spawned < Len(fetch.proxies)
    /\ fetch' = [fetch EXCEPT !.spawned = @ + 1, !.task[fetch.spawned + 1] = "start"]
    /\ UNCHANGED <<life, fwd, cfgFile, lst, store>>

\* lines 104-107: secrets.FetchSecret returns the secret, or an error (also
\* once the group's context is cancelled), which the task returns: the group
\* keeps the first error and cancels its context
task_Fetch(i) ==
    /\ fetch.pc \in {"spawn", "wait"}
    /\ fetch.task[i] = "start"
    /\ \/ fetch' = [fetch EXCEPT
                      !.task[i] = "send",
                      !.got[i] = SecretValue(Project(fetch.proxies[i].Instance),
                                             fetch.proxies[i].Secret)]
       \/ fetch' = [fetch EXCEPT
                      !.task[i] = "failed",
                      !.err = IF @ = 0 THEN i ELSE @,
                      !.ctxDone = TRUE]
    /\ UNCHANGED <<life, fwd, cfgFile, lst, store>>

\* lines 108-109: results <- result{...}, which needs room in the buffer since
\* nobody receives before g.Wait has returned; return nil
task_Send(i) ==
    /\ fetch.pc \in {"spawn", "wait"}
    /\ fetch.task[i] = "send"
    /\ Len(fetch.results) < ResultsCap(fetch.proxies)
    /\ fetch' = [fetch EXCEPT
                   !.task[i] = "returned",
                   !.results = Append(@, <<fetch.proxies[i].Instance, fetch.got[i]>>)]
    /\ UNCHANGED <<life, fwd, cfgFile, lst, store>>

\* line 113: the loop is over and g.Wait is called
fetch_CallWait ==
    /\ fetch.pc = "spawn"
    /\ fetch.spawned = Len(fetch.proxies)
    /\ fetch' = [fetch EXCEPT !.pc = "wait"]
    /\ UNCHANGED <<life, fwd, cfgFile, lst, store>>

\* lines 113-116: g.Wait returns once every task has returned; with an error,
\* return nil, err; without, close(results)
fetch_Wait ==
    /\ fetch.pc = "wait"
    /\ \A i \in 1..Len(fetch.proxies) : fetch.task[i] \in {"returned", "failed"}
    /\ fetch' = IF fetch.err # 0
                THEN [fetch EXCEPT !.pc = "done", !.res = "error"]
                ELSE [fetch EXCEPT !.pc = "drain"]
    /\ UNCHANGED <<life, fwd, cfgFile, lst, store>>

\* lines 118-120, one iteration: passwords[r.instance] = r.password
fetch_Drain ==
    /\ fetch.pc = "drain"
    /\ fetch.results # <<>>
    /\ LET r == Head(fetch.results) IN
         fetch' = [fetch EXCEPT
                     !.results = Tail(@),
                     !.passwords = [k \in DOMAIN @ \cup {r[1]} |->
                                      IF k = r[1] THEN r[2] ELSE @[k]]]
    /\ UNCHANGED <<life, fwd, cfgFile, lst, store>>

\* line 121: the closed channel is empty; return passwords, nil
fetch_Return ==
    /\ fetch.pc = "drain"
    /\ fetch.results = <<>>
    /\ fetch' = [fetch EXCEPT !.pc = "done", !.res = "ok", !.hasMap = TRUE]
    /\ UNCHANGED <<life, fwd, cfgFile, lst, store>>

\* fetchPasswords is called with the proxies of a configuration config.Load
\* has accepted
InitFetch ==
    /\ \E c \in ValidConfigs : fetch = FetchCall(c)
    /\ pidFile = NoFile
    /\ stateFile = NoFile
    /\ proc = [p \in Pids |-> Unborn]
    /\ lch = LIdle
    /\ stp = SIdle
    /\ fw = NewListener
    /\ conns = <<>>
    /\ cfgFile = <<>>
    /\ lst = ListIdle
    /\ store = NoStore

NextFetch ==
    \/ fetch_Go
    \/ fetch_CallWait
    \/ fetch_Wait
    \/ fetch_Drain
    \/ fetch_Return
    \/ \E i \in 1..Len(fetch.proxies) : task_Fetch(i)
    \/ \E i \in 1..Len(fetch.proxies) : task_Send(i)

SpecFetch == InitFetch /\ [][NextFetch]_vars

(***************************************************************************)
(* The reconciliation decision (checked under SpecDecide).                 *)
(***************************************************************************)
Range(q) == {q[i] : i \in 1..Len(q)}

\* how often e occurs in q
Count(q, e) == Cardinality({i \in 1..Len(q) : q[i] = e})

\* a and b hold the same triples, in any order
IsPermutation(a, b) == \A e \in Range(a) \cup Range(b) : Count(a, e) = Count(b, e)

\* the recorded pid is that of a live process
RecordedLive == pidFile.kind = "pid" /\ Live(pidFile.pid)

Decided == lch.decision # "none"

Snapshot == ReadState(stateFile).Proxies

\* b is a with one endpoint added, one removed, or one replaced (which covers
\* the change of a single field of one endpoint)
OneEdit(a, b) ==
    \/ \E e \in Range(b) \ Range(a) : Range(b) = Range(a) \cup {e}
    \/ \E e \in Range(a) \ Range(b) : Range(a) = Range(b) \cup {e}
    \/ /\ Len(a) = Len(b)
       /\ Cardinality(Range(a) \ Range(b)) = 1
       /\ Cardinality(Range(b) \ Range(a)) = 1

\* exactly one field of one endpoint differs, everything else in place
OneFieldChanged(a, b) ==
    /\ Len(a) = Len(b)
    /\ \E k \in 1..Len(a) :
         /\ \A i \in 1..Len(a) : i # k => a[i] = b[i]
         /\ Cardinality({f \in {"Instance", "Port", "Secret"} : a[k][f] # b[k][f]}) = 1

\* C1 Order independence: with a live recorded pid and a state file whose
\* snapshot is a permutation of the desired configuration, the decision is Keep
\* and the pid is the recorded pid.
C1_OrderIndependence ==
    (Decided /\ RecordedLive /\ stateFile.kind = "json"
             /\ IsPermutation(Snapshot, lch.cfg))
        => (lch.decision = "Keep" /\ lch.pid = pidFile.pid)

\* C2 Change sensitivity: with a live recorded pid and a state file whose
\* snapshot differs from the desired configuration by one endpoint added,
\* removed or replaced, or by one field of one endpoint, the decision is
\* Restart and the pid is the recorded pid.
C2_ChangeSensitivity ==
    (Decided /\ RecordedLive /\ stateFile.kind = "json"
             /\ (OneEdit(Snapshot, lch.cfg) \/ OneFieldChanged(Snapshot, lch.cfg)))
        => (lch.decision = "Restart" /\ lch.pid = pidFile.pid)

C2_Witness ==
    /\ lch.decision = "Restart"
    /\ RecordedLive /\ stateFile.kind = "json"
    /\ Len(lch.cfg) = 2
    /\ OneFieldChanged(Snapshot, lch.cfg)
    /\ Snapshot[2].Secret # lch.cfg[2].Secret

\* C3 Dead-pid dominance: without an identity file that parses, or with a
\* recorded pid that is not live, the decision is Start with pid 0, whatever
\* the desired configuration and the state file are.
C3_DeadPidDominance ==
    (Decided /\ ~RecordedLive) => (lch.decision = "Start" /\ lch.pid = 0)

C3_Witness ==
    /\ lch.decision = "Start"
    /\ pidFile.kind = "pid" /\ ~Live(pidFile.pid)
    /\ stateFile.kind = "json" /\ proxiesEqual(Snapshot, lch.cfg)
    /\ Len(lch.cfg) = 2

\* C4 With a live recorded pid and a state file that is missing or does not
\* parse, the decision is Restart with the recorded pid: never Keep, and the
\* command has not returned an error.
C4_UnreadableStateRestarts ==
    (Decided /\ RecordedLive /\ stateFile.kind \in {"none", "corrupt"})
        => (/\ lch.decision = "Restart"
            /\ lch.pid = pidFile.pid
            /\ lch.res # "error")

C4_Witness ==
    /\ lch.decision = "Restart"
    /\ RecordedLive
    /\ stateFile.kind = "corrupt"
    /\ Len(lch.cfg) = 1

(***************************************************************************)
(* The lifecycle claims (checked under Spec).                              *)
(***************************************************************************)
\* daemon p is live and on record as serving configuration c
Recorded(p, c) ==
    /\ Live(p)
    /\ pidFile = PidText(p)
    /\ stateFile = MarshalState(p, c)

\* this step is a step of the start command / of the stop command
LauncherStep == lch' # lch
StopStep == stp' # stp

\* C5 Idempotent start: while a live daemon is on record with configuration
\* C, a start invocation with configuration C finds the pid live, decides Keep
\* and returns success, and neither of its steps changes a file or a process
\* (no signal, no removal, no spawn, same pid).
C5_IdempotentStart ==
    [][\A p \in Pids :
         /\ (LauncherStep /\ lch.pc = "checkpid" /\ Recorded(p, lch.cfg))
              => /\ lch'.pc = "checkstate" /\ lch'.pid = p
                 /\ UNCHANGED <<pidFile, stateFile, proc>>
         /\ (LauncherStep /\ lch.pc = "checkstate" /\ lch.pid = p
                          /\ Recorded(p, lch.cfg))
              => /\ lch'.pc = "done" /\ lch'.decision = "Keep" /\ lch'.res = "ok"
                 /\ UNCHANGED <<pidFile, stateFile, proc>>]_vars

C5_Witness ==
    /\ lch.pc = "done" /\ lch.decision = "Keep"
    /\ Recorded(lch.pid, lch.cfg)
    /\ proc[lch.pid].pc = "wait"

\* C6 All-or-nothing startup: when runDaemon returns after the Nth bind
\* failed, every listener it had started has been closed by Close, the
\* identity and the state file are gone, and the result is the bind error; and
\* when that process then exits it holds no port and no file names it.
C6_AllOrNothing ==
    [][\A p \in Pids :
         /\ (proc[p].pc = "rb_remove" /\ proc'[p].pc = "exit")
              => /\ \A i \in 1..Len(proc[p].ls) : ~proc[p].ls[i]
                 /\ pidFile' = NoFile /\ stateFile' = NoFile
                 /\ proc'[p].exit = "err_bind"
         /\ (proc[p].pc = "exit" /\ proc[p].exit = "err_bind" /\ proc'[p].pc = "dead")
              => /\ PortsOf(p) = {}
                 /\ pidFile # PidText(p)
                 /\ ~(stateFile.kind = "json" /\ stateFile.pid = p)]_vars

C6_Witness ==
    \E p \in Pids :
        /\ proc[p].pc = "exit" /\ proc[p].exit = "err_bind"
        /\ Len(proc[p].ls) = 1 /\ ~proc[p].ls[1]
        /\ pidFile = NoFile /\ stateFile = NoFile

\* C8 Idempotent cleanup: whenever the stop command returns it returns
\* success and neither the identity file nor the state file exists.
C8_IdempotentCleanup ==
    [][(StopStep /\ stp'.pc = "done")
         => (stp'.res # "error" /\ pidFile' = NoFile /\ stateFile' = NoFile)]_vars

\* C9 When the stop command has found a live recorded pid and returns, the
\* process with that pid is not live.
C9_StoppedMeansDead ==
    [][(StopStep /\ stp.pc \in {"term", "poll", "killed"} /\ stp'.pc = "done")
         => ~(stp.pid \in Pids /\ proc'[stp.pid].pc \notin {"unborn", "dead"})]_vars

(***************************************************************************)
(* The forwarder claims (checked under SpecFwd).                           *)
(***************************************************************************)
\* C7 Graceful drain: once Close has been invoked the accept loop accepts no
\* connection, and Close has not returned while the accept loop or a
\* connection task is still running.
C7_GracefulDrain ==
    /\ [][Len(conns') > Len(conns) => fw.close = "idle"]_vars
    /\ [](fw.close = "returned"
            => /\ ~fw.loop
               /\ \A c \in 1..Len(conns) : conns[c].pc = "done")

\* C10 Byte fidelity: in each direction of every connection the bytes written
\* to the receiver are a prefix of the bytes the sender wrote, and are all of
\* them once io.Copy has returned on end-of-stream.
C10_ByteFidelity ==
    \A c \in 1..Len(conns) : \A d \in Dirs :
        /\ IsPrefix(conns[c][d].del, conns[c][d].sent)
        /\ conns[c][d].st = "eof" => conns[c][d].del = conns[c][d].sent

C10_Witness ==
    \E c \in 1..Len(conns) :
        /\ conns[c].c2r.st = "eof" /\ conns[c].c2r.del = <<0>>
        /\ conns[c].r2c.st = "eof" /\ conns[c].r2c.del = <<1>>

\* C11 Dial failure is recovered locally: the step in which Dial fails closes
\* the client socket and leaves the listener and the accept loop as they
\* were; a connection whose dial failed has no remote socket, has forwarded no
\* byte, and its task has ended and never dials again.
C11_DialFailureLocal ==
    /\ [][\A c \in 1..Len(conns) :
            /\ (conns[c].pc = "dial" /\ conns'[c].dial = "failed")
                 => /\ ~conns'[c].cs
                    /\ fw'.bound = fw.bound /\ fw'.loop = fw.loop
            /\ conns[c].dial = "failed" => conns'[c] = conns[c]]_vars
    /\ [](\A c \in 1..Len(conns) :
            conns[c].dial = "failed"
              => /\ conns[c].pc = "done" /\ ~conns[c].cs /\ ~conns[c].rs
                 /\ \A d \in Dirs : conns[c][d].del = <<>> /\ conns[c][d].rd = 0)

C11_Witness ==
    /\ Len(conns) = 1
    /\ conns[1].dial = "failed"
    /\ ENABLED acceptLoop_Accept

\* no daemon is starting up or shutting down or has a signal pending, and
\* neither the start nor the stop command is in progress
Quiescent ==
    /\ \A p \in Pids : /\ proc[p].pc \in {"unborn", "wait", "dead"}
                       /\ ~proc[p].term /\ ~proc[p].kill
    /\ lch.pc \in {"idle", "done"}
    /\ stp.pc \in {"idle", "done"}

\* C12 Identity and state file persist only as a pair: in every quiescent
\* state either both files exist or neither does.
C12_FilesArePair ==
    Quiescent => ((pidFile = NoFile) <=> (stateFile = NoFile))

\* C13 CleanupStale: with a recorded pid that is not live it removes both
\* files and returns nil; with a recorded pid that is live it returns an error
\* and leaves both files unchanged; with no readable identity file it returns
\* nil and changes nothing.
C13_CleanupStale ==
    [][(LauncherStep /\ lch.pc = "cleanup") =>
         /\ (pidFile.kind = "pid" /\ ~Live(pidFile.pid))
              => /\ lch'.stale = "ok_removed"
                 /\ pidFile' = NoFile /\ stateFile' = NoFile
         /\ (pidFile.kind = "pid" /\ Live(pidFile.pid))
              => /\ lch'.stale = "err_running"
                 /\ UNCHANGED <<pidFile, stateFile>>
         /\ pidFile.kind # "pid"
              => /\ lch'.stale = "ok_nofile"
                 /\ UNCHANGED <<pidFile, stateFile>>]_vars

C13_Witness ==
    /\ lch.pc = "spawn" /\ lch.stale = "err_running"
    /\ pidFile.kind = "pid" /\ Live(pidFile.pid)
    /\ stateFile.kind = "json"

(***************************************************************************)
(* The claims about the readers (checked under SpecReaders).               *)
(***************************************************************************)
ListStep == lst' # lst

\* no port and no instance occurs twice in cfg
NoRepeats(cfg) ==
    /\ Cardinality({cfg[i].Port : i \in 1..Len(cfg)}) = Len(cfg)
    /\ Cardinality({cfg[i].Instance : i \in 1..Len(cfg)}) = Len(cfg)

\* C14 Readers never fail on bad persisted state: stop with a missing or
\* unparsable identity file reports that no daemon is running; list with a
\* missing or unparsable state file reports "stopped"; start decides Start on a
\* missing or unparsable identity file and Restart on a missing or unparsable
\* state file; and none of the commands returns an error because of these
\* files (list returns one only for a rejected configuration).
C14_ReadersNeverFail ==
    /\ [][/\ (StopStep /\ stp.pc \in {"idle", "done"} /\ pidFile.kind # "pid")
               => (stp'.pc = "done" /\ stp'.res = "none_running")
          /\ (ListStep /\ lst.pc = "readstate" /\ stateFile.kind # "json")
               => (lst'.pc = "done" /\ lst'.res = "ok" /\ lst'.status = "stopped")
          /\ (LauncherStep /\ lch.pc = "checkpid" /\ pidFile.kind # "pid")
               => (lch'.decision = "Start" /\ lch'.res # "error")
          /\ (LauncherStep /\ lch.pc = "checkstate" /\ stateFile.kind # "json")
               => (lch'.decision = "Restart" /\ lch'.res # "error")]_vars
    /\ [](/\ stp.res # "error"
          /\ lch.res # "error"
          /\ lst.res = "error" => ~NoRepeats(cfgFile))

C14_Witness ==
    /\ pidFile = CorruptFile /\ stateFile = CorruptFile
    /\ stp.pc = "done" /\ stp.res = "none_running"
    /\ lst.pc = "done" /\ lst.res = "ok" /\ lst.status = "stopped"
    /\ lch.decision = "Start"

\* C15 config.Load returns a configuration only if its ports are pairwise
\* distinct and its instances are pairwise distinct, and rejects every file
\* with a repeated port or a repeated instance; the configurations the
\* commands work with have no repeats.
C15_LoadedConfigsAreUnique ==
    /\ [][(ListStep /\ lst.pc \in {"idle", "done"}) =>
            IF NoRepeats(cfgFile)
            THEN lst'.pc = "readstate" /\ lst'.cfg = cfgFile
            ELSE lst'.pc = "done" /\ lst'.res = "error"]_vars
    /\ [](NoRepeats(lst.cfg) /\ NoRepeats(lch.cfg))

C15_Witness ==
    /\ lst.pc = "done" /\ lst.res = "error"
    /\ Len(cfgFile) = 2
    /\ cfgFile[1].Port # cfgFile[2].Port
    /\ cfgFile[1].Instance = cfgFile[2].Instance

(***************************************************************************)
(* The claim about the State Store (checked under SpecStore).              *)
(***************************************************************************)
\* C16 State Store round trip: ReadPID after a WritePID(pid) returns pid, and
\* ReadState after a WriteState(s) returns the pid, the start time and the
\* sequence of (instance, port, secret) entries of s, in the same order.
C16_StoreRoundTrip ==
    /\ store.ppc = "read" => store.gotPid = [val |-> store.pid, err |-> FALSE]
    /\ store.spc = "read"
         => /\ ~store.gotSt.err
            /\ store.gotSt.PID = store.st.PID
            /\ store.gotSt.StartedAt = store.st.StartedAt
            /\ store.gotSt.Proxies = store.st.Proxies

C16_Witness ==
    /\ store.ppc = "read" /\ store.pid = 12345
    /\ store.spc = "read" /\ store.st.StartedAt.nsec = 120
    /\ Len(store.st.Proxies) = 2 /\ store.st.Proxies[1].Port = 5433

(***************************************************************************)
(* Termination of the forwarder (checked under SpecFwd).                   *)
(***************************************************************************)
\* a step of connection c's task or of one of its two copies, as opposed to a
\* step of a peer
TaskStep(c) ==
    \/ handleConn_Dial(c)
    \/ handleConn_Return(c)
    \/ \E d \in Dirs : copy_Read(c, d) \/ copy_Write(c, d)

\* a step the forwarder takes by itself once Close has begun
ForwarderStep ==
    \/ acceptLoop_Error
    \/ Close_Listener
    \/ Close_Wait
    \/ \E c \in 1..Len(conns) : TaskStep(c)

\* C17 Termination after a signal: from the cancellation on, until Close has
\* returned, the forwarder always has a step of its own to take; it never
\* depends on a client or a remote peer closing a connection.
C17_CloseNeedsNoPeer ==
    fw.close \in {"cancelled", "waiting"} => ENABLED ForwarderStep

\* C18 Connection teardown: once one direction of a connection has ended, the
\* task either still has a step of its own to take or has closed both
\* sockets, so it completes without the other peer; and a task whose dial
\* succeeded is complete only with both directions ended.
C18_TeardownOnFirstEnd ==
    \A c \in 1..Len(conns) :
        /\ (conns[c].pc = "pump" /\ \E d \in Dirs : conns[c][d].st # "run")
             => (ENABLED TaskStep(c) \/ (~conns[c].cs /\ ~conns[c].rs))
        /\ (conns[c].pc = "done" /\ conns[c].dial = "ok")
             => \A d \in Dirs : conns[c][d].st # "run"

(***************************************************************************)
(* Ownership of the files (checked under Spec).                            *)
(***************************************************************************)
\* the identity file / the state file was written by daemon p
PidFileOf(p) == pidFile = PidText(p)
StateFileOf(p) == stateFile.kind = "json" /\ stateFile.pid = p

\* C19 Single writer: while daemon p is alive (and, to leave the stop
\* protocol's signals aside, has no signal pending), a step that changes or
\* removes the identity file or the state file p wrote is a step of p.
C19_SingleWriter ==
    [][\A p \in Pids :
         (Live(p) /\ ~proc[p].term /\ ~proc[p].kill) =>
           /\ (PidFileOf(p) /\ pidFile' # pidFile) => proc'[p] # proc[p]
           /\ (StateFileOf(p) /\ stateFile' # stateFile) => proc'[p] # proc[p]]_vars

\* C20 The state file is written at most once per daemon and only with every
\* configured forwarder bound: a step that writes a state file is the step of
\* a daemon p from WriteState to the signal wait, with a listener bound for
\* every entry of p's configuration, and writes p's pid and configuration; and
\* a daemon that has left WriteState never comes back to it.
C20_StateFileOnceAllBound ==
    [][/\ (stateFile' # stateFile /\ stateFile'.kind = "json")
            => \E p \in Pids :
                 /\ proc[p].pc = "writestate" /\ proc'[p].pc = "wait"
                 /\ Len(proc[p].ls) = Len(proc[p].cfg)
                 /\ \A i \in 1..Len(proc[p].ls) : proc[p].ls[i]
                 /\ stateFile' = MarshalState(p, proc[p].cfg)
       /\ \A p \in Pids :
            proc'[p].pc = "writestate"
              => proc[p].pc \in {"load", "bind", "writestate"}]_vars

C20_Witness ==
    \E p \in Pids :
        /\ proc[p].pc = "wait"
        /\ stateFile = MarshalState(p, proc[p].cfg)
        /\ Len(proc[p].ls) = 2 /\ proc[p].ls[1] /\ proc[p].ls[2]

(***************************************************************************)
(* C21..C30: orders of the daemon's and the stop protocol's steps, and     *)
(* the forwarder's state machine.                                          *)
(***************************************************************************)
\* this step of daemon p starts a listener / writes the state file
BindStep(p) == Len(proc'[p].ls) > Len(proc[p].ls)
StateWriteStep(p) == stateFile' # stateFile /\ stateFile'.kind = "json" /\ stateFile'.pid = p

\* C21 Identity before everything: a daemon leaves WritePID towards the rest of
\* runDaemon only in a step that writes its pid to the identity file; it starts
\* a listener only from the start loop and writes the state file only after
\* the start loop, both of which are entered only past WritePID; so a daemon
\* that has not written its identity yet has no listener and no state file
\* of its own.
C21_IdentityFirst ==
    [][\A p \in Pids :
         /\ (proc[p].pc = "writepid" /\ proc'[p].pc \notin {"writepid", "dead"})
               => (proc'[p].pc = "load" /\ pidFile' = PidText(p))
         /\ (proc'[p].pc = "load" /\ proc[p].pc # "load") => proc[p].pc = "writepid"
         /\ (proc'[p].pc \in {"bind", "writestate"} /\ proc[p].pc # proc'[p].pc)
               => proc[p].pc \in {"load", "bind"}
         /\ BindStep(p) => proc[p].pc = "bind"
         /\ StateWriteStep(p) => proc[p].pc = "writestate"
         /\ proc'[p].pc \in {"unborn", "writepid"}
               => (proc'[p].ls = <<>> /\ ~StateWriteStep(p))]_vars

\* a daemon has written its identity and bound its first port, and no state
\* file exists yet
C21_Witness ==
    \E p \in Pids :
       /\ proc[p].pc = "bind"
       /\ Len(proc[p].ls) = 1
       /\ pidFile = PidText(p)
       /\ stateFile = NoFile

\* this step is daemon p removing the files at the end of its shutdown
ShutdownRemoveStep(p) == proc[p].pc = "sd_remove" /\ proc'[p].pc = "exit"

\* C22 Shutdown order: when a signalled daemon removes the identity and state
\* files, every forwarder it started is closed (no port of its is bound) and
\* its shared dialer is closed; it then exits 0.
C22_ShutdownOrder ==
    [][\A p \in Pids :
         ShutdownRemoveStep(p)
            => /\ \A i \in 1..Len(proc[p].ls) : ~proc[p].ls[i]
               /\ ~DialerOpen(p)
               /\ proc'[p].exit = "ok"]_vars

\* C23 Signal during startup: a daemon that has written its identity file and
\* is ended by a termination signal (a SIGTERM is pending when it ends, and no
\* SIGKILL) has removed its files first: no identity or state file naming it
\* is left when it is gone.
C23_SignalAlwaysCleansUp ==
    [][\A p \in Pids :
         (/\ Live(p)
          /\ proc[p].pc # "writepid"
          /\ proc[p].term /\ ~proc[p].kill
          /\ proc'[p].pc = "dead")
            => (pidFile' # PidText(p)
                /\ ~(stateFile'.kind = "json" /\ stateFile'.pid = p))]_vars

\* this step of the stop command sends SIGKILL
ForcefulStep == stp.pc # "killed" /\ stp'.pc = "killed"

\* C24 Escalation order: the stop command sends the forceful signal only
\* after the graceful one and after the polling has run to its deadline, and
\* only to a process that is still live at that moment.
C24_EscalationOrder ==
    [][ForcefulStep
         => /\ stp.pc = "poll"
            /\ stp.polls = MaxPolls
            /\ Live(stp.pid)]_vars

\* this step of the start command spawns a daemon
SpawnStep == \E q \in Pids : proc[q].pc = "unborn" /\ proc'[q].pc = "writepid"

C26_DecisionHasNoSideEffects ==
    [][LauncherStep
         => /\ lch.pc \in {"idle", "done", "checkpid", "checkstate"}
                 => UNCHANGED <<pidFile, stateFile, proc>>
            /\ lch'.decision # lch.decision
                 => lch.pc \in {"idle", "done", "checkpid", "checkstate",
                                "stop_term", "cleanup"}
            /\ (lch'.decision = "Keep" /\ lch.decision # "Keep")
                 => (lch'.pc = "done" /\ lch'.res = "ok")]_vars

\* Start has been decided over the identity file of a dead process, which is
\* still there
C26_Witness ==
    /\ lch.pc = "cleanup" /\ lch.decision = "Start"
    /\ pidFile.kind = "pid" /\ ~Live(pidFile.pid)

\* this step is daemon p closing a listener during the startup rollback
RollbackCloseStep(p) ==
    /\ proc[p].pc = "rb_close"
    /\ proc'[p].pc \in {"rb_close", "rb_remove"}

\* C27 Rollback order: during the startup rollback the listeners already
\* started are closed in reverse order of start: whenever one is closed, every
\* listener started after it has been closed already.
C27_RollbackReverseOrder ==
    [][\A p \in Pids :
         RollbackCloseStep(p)
            => \A i \in 1..Len(proc[p].ls) :
                  (proc[p].ls[i] /\ ~proc'[p].ls[i])
                     => \A k \in (i + 1)..Len(proc[p].ls) : ~proc[p].ls[k]]_vars

\* this step is the accept loop logging an Accept failure: one that is not
\* classified as shutdown
AcceptFailureStep == fw.loop /\ ~fw.logged /\ fw'.logged

FwPhase ==
    CASE fw.st = "new" -> "Created"
      [] fw.st = "failed" -> "Failed"
      [] fw.st = "bound" -> "Bound"
      [] fw.st = "started" /\ fw.close = "idle" -> "Accepting"
      [] fw.st = "started" /\ fw.close \in {"cancelled", "waiting"} -> "Closing"
      [] fw.st = "started" /\ fw.close = "returned" -> "Closed"

\* C29 Forwarder state machine: the forwarder changes state only along
\* Created, Bound, Accepting, Closing, Closed, or from Created to failed when
\* the bind fails; a failed forwarder stays failed, with no accept loop, no
\* listener, no scope to cancel and no connection; the accept loop is started
\* only on a bound listener, accepts only while the listener is bound, and
\* outlives the listener only while Close, having closed it, waits for the loop.
C29_StateMachine ==
    /\ [][FwPhase' # FwPhase
            => <<FwPhase, FwPhase'>> \in {<<"Created", "Bound">>, <<"Created", "Failed">>,
                                          <<"Bound", "Accepting">>,
                                          <<"Accepting", "Closing">>,
                                          <<"Closing", "Closed">>}]_vars
    /\ [](fw.st = "failed"
            => (~fw.loop /\ ~fw.bound /\ ~fw.cancelled /\ fw.wg = 0 /\ conns = <<>>))
    /\ [][(~fw.loop /\ fw'.loop) => (fw.bound /\ FwPhase = "Bound")]_vars
    /\ [][Len(conns') > Len(conns) => (fw.bound /\ fw.loop)]_vars
    /\ [](fw.loop => (fw.bound \/ fw.close = "waiting"))

\* the forwarder has gone through the whole state machine, having accepted
\* connections on the way
C29_Witness ==
    /\ FwPhase = "Closed"
    /\ Len(conns) = MaxConns

\* this step is the accept loop returning
LoopExitStep == fw.loop /\ ~fw'.loop

\* C30 Shutdown accept failure is silent: Close closes the listener only
\* after it has cancelled the scope, so when the accept loop exits after Close
\* has begun, on the Accept failure that Close causes, it logs nothing.
C30_ShutdownIsSilent ==
    /\ [](fw.close \in {"waiting", "returned"} /\ fw.st = "started" => fw.cancelled)
    /\ [][(LoopExitStep /\ fw.close # "idle") => ~fw'.logged]_vars

\* Close has returned on a forwarder whose accept loop was still running when
\* Close began: the loop has exited and nothing was logged
C30_Witness ==
    /\ fw.st = "started" /\ fw.close = "returned"
    /\ ~fw.loop /\ ~fw.logged

(***************************************************************************)
(* C31..C40: the launcher's preflight and probe, concurrent commands, and  *)
(* the forwarder's wait group and sockets.                                 *)
(***************************************************************************)
\* the start command has returned the credential or the configuration error
PreflightFailed == lch.pc = "done" /\ lch.res \in {"err_adc", "err_config"}

\* C31 Errors before any daemon action: a start command that fails its
\* credential check or its configuration load returns the error in the very
\* step it began with, and that step sends no signal, removes or writes no
\* file and spawns no process; every step of the start command that does
\* change a file or a process is taken with a configuration loaded.
C31_PreflightBeforeAction ==
    [][LauncherStep
         => /\ PreflightFailed'
                 => /\ lch.pc \in {"idle", "done"}
                    /\ UNCHANGED <<pidFile, stateFile, proc>>
            /\ (pidFile' # pidFile \/ stateFile' # stateFile \/ proc' # proc)
                 => (lch.cfg \in LifeConfigs /\ lch.pc \notin {"idle", "done"})]_vars

\* the start command has failed its preflight while a serving daemon is on
\* record, and the daemon and both files are still there
C31_Witness ==
    /\ PreflightFailed
    /\ \E p \in Pids : Recorded(p, proc[p].cfg) /\ proc[p].pc = "wait"

\* C32 Readiness probing never fails the command: each step of the probe
\* reports one more endpoint, whatever the connect gave, and keeps the earlier
\* reports; the command returns only with every endpoint reported, and
\* then with success; probing changes no file and no process.
C32_ProbeNeverFails ==
    [][(LauncherStep /\ lch.pc = "probe")
         => /\ UNCHANGED <<pidFile, stateFile, proc>>
            /\ \/ /\ lch'.pc = "probe"
                  /\ Len(lch'.report) = Len(lch.report) + 1
                  /\ SubSeq(lch'.report, 1, Len(lch.report)) = lch.report
               \/ /\ lch'.pc = "done" /\ lch'.res = "ok"
                  /\ Len(lch.report) = Len(lch.cfg)]_vars

\* the connect to the first endpoint failed and the second endpoint has been
\* probed all the same
C32_Witness ==
    /\ lch.pc = "probe"
    /\ Len(lch.cfg) = 2
    /\ lch.report = <<"failed", "started">>

\* C33 Parallel secret fetching: a task that has fetched its secret can always
\* send it; fetchPasswords returns only with every task returned; when no
\* fetch failed it returns a map with exactly the endpoints' instances as keys,
\* each with the secret of that endpoint; when a fetch failed it returns an
\* error and no map.
C33_ParallelFetch ==
    /\ \A i \in 1..Len(fetch.proxies) :
         fetch.task[i] = "send" => ENABLED task_Send(i)
    /\ fetch.pc = "done"
         => /\ \A i \in 1..Len(fetch.proxies) : fetch.task[i] \in {"returned", "failed"}
            /\ IF \A i \in 1..Len(fetch.proxies) : fetch.task[i] = "returned"
               THEN /\ fetch.res = "ok" /\ fetch.hasMap
                    /\ DOMAIN fetch.passwords
                         = {fetch.proxies[i].Instance : i \in 1..Len(fetch.proxies)}
                    /\ \A i \in 1..Len(fetch.proxies) :
                         fetch.passwords[fetch.proxies[i].Instance]
                           = SecretValue(Project(fetch.proxies[i].Instance),
                                         fetch.proxies[i].Secret)
               ELSE /\ fetch.res = "error" /\ ~fetch.hasMap
                    /\ fetch.passwords = <<>>

\* two endpoints with the same secret name have been fetched and returned
C33_Witness ==
    /\ fetch.pc = "done" /\ fetch.res = "ok"
    /\ Len(fetch.proxies) = 2
    /\ fetch.proxies[1].Secret = fetch.proxies[2].Secret
    /\ Cardinality(DOMAIN fetch.passwords) = 2

\* the start command is not running and every daemon spawned has finished
\* its startup or its rollback: it serves or it is gone
Settled ==
    /\ lch.pc \in {"idle", "done"}
    /\ stp.pc \in {"idle", "done"}
    /\ \A p \in Pids : /\ proc[p].pc \in {"unborn", "wait", "dead"}
                       /\ ~proc[p].term /\ ~proc[p].kill

\* C34 Two starts: once two daemons have been spawned by start commands with
\* the same configuration, none of which found a daemon to restart, and
\* everything has settled, exactly one daemon is live and the identity file
\* and the state file both record its pid.
C34_TwoStartsOneDaemon ==
    (Settled /\ \A p \in Pids : proc[p].pc # "unborn")
        => \E p \in Pids :
              /\ Live(p)
              /\ \A q \in Pids : Live(q) => q = p
              /\ pidFile = PidText(p)
              /\ stateFile = MarshalState(p, SameConfig)

\* C35: a stop command interleaved with a start command: once both have
\* returned and startup has settled, every live daemon that holds bound ports
\* is the one the identity file names.
C35_StopStartRecorded ==
    (Settled /\ lch.pc = "done" /\ stp.pc = "done")
        => \A p \in Pids : (Live(p) /\ PortsOf(p) # {}) => pidFile = PidText(p)

\* C36: whenever daemon.pid and state.json both exist, the pid recorded in
\* state.json is the pid in daemon.pid.
C36_FilesAgreeOnPid ==
    (~ReadPID(pidFile).err /\ ~ReadState(stateFile).err)
        => ReadState(stateFile).PID = ReadPID(pidFile).pid

\* C37: list and start agree on liveness: when list reads the state store it
\* reports "running" exactly when the identity file names a live process,
\* which is exactly when a start deciding on the same files would not decide
\* Start.
C37_ListAgreesWithStart ==
    [][(lst.pc = "readstate" /\ lst'.pc = "done")
          => (lst'.status = "running"
                <=> (~ReadPID(pidFile).err /\ Live(ReadPID(pidFile).pid)))]_vars

\* the tasks of the forwarder that have not returned: the accept loop and
\* the connection tasks
RunningTasks ==
    (IF fw.loop THEN 1 ELSE 0)
      + Cardinality({c \in 1..Len(conns) : conns[c].pc # "done"})

\* C38: the join barrier.  The wait-group counter is never negative and
\* counts exactly the tasks that have not returned, a connection task being
\* added while the accept loop is still counted; after Close has returned
\* the accept loop has returned, so no connection task can be started, and
\* every connection task has returned.
C38_JoinBarrier ==
    /\ fw.wg >= 0
    /\ fw.wg = RunningTasks
    /\ fw.close = "returned"
         => /\ ~fw.loop
            /\ ~ENABLED acceptLoop_Accept
            /\ \A c \in 1..Len(conns) : conns[c].pc = "done"

\* C38 witness: Close has returned on a forwarder that accepted MaxConns
\* connections, one of which was pumped and one of which failed to dial.
C38_Witness ==
    /\ fw.st = "started"
    /\ fw.close = "returned"
    /\ Len(conns) = MaxConns
    /\ \E c, d \in 1..Len(conns) : conns[c].dial = "ok" /\ conns[d].dial = "failed"

\* connection task c returns in this step
TaskReturns(c) == c \in 1..Len(conns) /\ conns[c].pc # "done" /\ conns'[c].pc = "done"

\* C39: no socket leak.  A connection task that returns, after a failed dial
\* or after the pumps, leaves its client socket closed and, the dial having
\* succeeded, its remote socket closed; a finished task never holds an open
\* socket afterwards.
C39_NoSocketLeak ==
    [][\A c \in 1..Len(conns) :
          /\ TaskReturns(c)
               => /\ conns[c].cs /\ ~conns'[c].cs
                  /\ conns'[c].dial = "ok" => (conns[c].rs /\ ~conns'[c].rs)
                  /\ conns'[c].dial = "failed" => ~conns'[c].rs
          /\ conns[c].pc = "done" => (~conns'[c].cs /\ ~conns'[c].rs)]_vars

\* C39 witness: one connection task has returned after a failed dial and
\* another after pumping bytes, neither holding a socket.
C39_Witness ==
    \E c, d \in 1..Len(conns) :
       /\ conns[c].pc = "done" /\ conns[c].dial = "failed" /\ ~conns[c].cs
       /\ conns[d].pc = "done" /\ conns[d].dial = "ok" /\ ~conns[d].cs /\ ~conns[d].rs
       /\ conns[d].c2r.del # <<>>

\* a step of a call of Close
CloseCallStep == fw'.close # fw.close

\* Close is running, or has run, on a forwarder with nothing to close: one
\* never started, one whose Start failed, or one a Close has already returned on
NothingToClose(f) == f.st \in {"new", "failed"} \/ f.closes >= 2

\* C40: Close is safe on a forwarder that never started and safe to repeat.
\* On a forwarder whose Start failed or was never called, and in a second call
\* after a completed one, every step of Close changes nothing but the position
\* of the call itself, the call never panics and never blocks: each of its
\* steps can be taken at once, the wait included.
C40_CloseSafeToRepeat ==
    /\ [][(CloseCallStep /\ NothingToClose(fw'))
            => /\ fw'.close \in {"cancelled", "waiting", "returned"}
               /\ fw' = [fw EXCEPT !.close = fw'.close, !.closes = fw'.closes]
               /\ conns' = conns]_vars
    /\ [](NothingToClose(fw)
            => /\ fw.close # "panicked"
               /\ fw.close = "cancelled" => ENABLED Close_Listener
               /\ fw.close = "waiting" => (fw.wg = 0 /\ ENABLED Close_Wait))

\* C40 witness: Start failed, Close was called and returned, and a second
\* Close has returned as well.
C40_Witness ==
    /\ fw.st = "failed"
    /\ fw.closes = 2
    /\ fw.close = "returned"

====
